---------------------------- MODULE Spec2Model ----------------------------
(***************************************************************************)
(* Request-gating pipeline of the xivdyetools-maintainer server            *)
(* (server/api.ts and the server/middleware files), with the session store *)
(* and the three rate-limit tiers.                                         *)
(*                                                                         *)
(* Each middleware of the Express chain is one action on one request.      *)
(*                                                                         *)
(* Time.  The clock advances in ticks.  A timestamp the code keeps         *)
(* (session.createdAt, a limiter's resetTime, the deadline of the timeout  *)
(* timer) is held as its distance from Date.now(): the age of a session,   *)
(* the time left in a window, the time left on a timer.  A tick ages all   *)
(* of them.  Ages stop growing one tick past SESSION_DURATION_MS, where    *)
(* every comparison of the code has the same outcome ever after.           *)
(*                                                                         *)
(* The durations of the code and the tier maxima are scaled down to a few  *)
(* ticks and a few requests, keeping their order:                          *)
(*   TIMEOUT_MS <= WRITE_WINDOW_MS < GLOBAL_WINDOW_MS = SESSION_WINDOW_MS  *)
(*              < SESSION_DURATION_MS,   SESSION_MAX < WRITE_MAX <         *)
(*   GLOBAL_MAX.                                                           *)
(***************************************************************************)
EXTENDS Integers, Sequences, FiniteSets, TLC

(***************************************************************************)
(* Bounds of the model.                                                    *)
(***************************************************************************)
\* number of distinct session token values
MaxTokens == 2
\* sessions that have not expired, at most, while a new one is requested
MaxLive == 1
\* requests a client may send beyond the global maximum within one window
MaxOver == 1

\* scaled stand-ins for the durations and maxima of the code
\* timeout.ts:21            TIMEOUT_MS = 30000
TIMEOUT_MS == 1
\* rateLimiting.ts:42       windowMs: 1 * 60 * 1000
WRITE_WINDOW_MS == 1
\* rateLimiting.ts:23       windowMs: 15 * 60 * 1000
GLOBAL_WINDOW_MS == 2
\* rateLimiting.ts:62       windowMs: 15 * 60 * 1000
SESSION_WINDOW_MS == 2
\* api.ts:675               SESSION_DURATION_MS = 24 * 60 * 60 * 1000
SESSION_DURATION_MS == 3
\* rateLimiting.ts:24       max: 1000
GLOBAL_MAX == 3
\* rateLimiting.ts:43       max: 30
WRITE_MAX == 2
\* rateLimiting.ts:63       max: 10
SESSION_MAX == 1

(***************************************************************************)
(* Values.                                                                 *)
(***************************************************************************)
Reqs == {"r1"}
Clients == {"c1"}
Methods == {"GET", "POST", "DELETE"}
Routes == {"health", "session", "colors", "locale", "other", "nonapi"}
\* caller-supplied :code of /api/locale/:code
Codes == {"en", "xx", "../en"}
validCodes == {"en", "ja", "de", "fr", "ko", "zh"}
\* the files the requests of the model can name
Files == {"colors"} \cup (Codes \cap validCodes)
Payloads == {"p1"}
NoToken == -1
\* a token value that the store never issued
ForgedToken == 0
Tokens == 1..MaxTokens
NoKey == "none"
KeyValues == {"k3y", "kEy", "k3y0"}
Tiers == {"global", "write", "session"}
\* an age at which a session has expired for good
Old == SESSION_DURATION_MS + 1

VARIABLES
  server,     \* the process: phase of its startup, exit status, the disk it sees
  API_KEY,    \* process.env.MAINTAINER_API_KEY, NoKey when unset
  sessions,   \* SessionManager.sessions: token -> Date.now() - createdAt
  issued,     \* history: token -> time since generateSession returned it
  cleared,    \* history: tokens that were in the store at a clearAll()
  hits,       \* the limiters' stores: tier -> client -> [count, left]
  files,      \* contents of colors_xiv.json and the locale files
  req,        \* the requests in flight
  page        \* the maintainer page in the browser: fileService and DyeForm

vars == <<server, API_KEY, sessions, issued, cleared, hits, files, req, page>>

(***************************************************************************)
(* Session store: SessionManager (server/api.ts, 673-765).                 *)
(***************************************************************************)
EmptyStore == [t \in {} |-> 0]

\* variant: a session expires already at the session duration
isExpired_AtDuration(age) == age >= SESSION_DURATION_MS

\* api.ts:715  Date.now() - session.createdAt.getTime() > SESSION_DURATION_MS
isExpired(age) == age > SESSION_DURATION_MS

\* validateSession's return value (api.ts:706-725)
validateSession(store, token) ==
  IF token \notin DOMAIN store THEN FALSE
  ELSE IF isExpired(store[token]) THEN FALSE
  ELSE TRUE

\* variant: validating a token sweeps every expired entry of the map
validateSessionStore_Sweeps(store, token) ==
  IF token \in DOMAIN store /\ isExpired(store[token])
  THEN [k \in {x \in DOMAIN store : ~isExpired(store[x])} |-> store[k]]
  ELSE store

\* validateSession's effect on the map: an expired entry is deleted
validateSessionStore(store, token) ==
  IF token \in DOMAIN store /\ isExpired(store[token])
  THEN [k \in DOMAIN store \ {token} |-> store[k]]
  ELSE store

\* cleanupExpiredSessions (api.ts:731-745)
cleanupExpiredSessions(store) ==
  [k \in {x \in DOMAIN store : ~isExpired(store[x])} |-> store[k]]

\* variant: generateSession stores the session and sweeps nothing
generateSession_NoSweep(store, token) ==
  [k \in DOMAIN store \cup {token} |-> IF k = token THEN 0 ELSE store[k]]

\* generateSession's effect on the map (api.ts:682-698): set the entry with
\* createdAt = new Date(), then clean up
generateSession(store, token) ==
  cleanupExpiredSessions(
    [k \in DOMAIN store \cup {token} |-> IF k = token THEN 0 ELSE store[k]])

\* variant: only the expired sessions are removed
clearAll_KeepsLive(store) ==
  [k \in {x \in DOMAIN store : store[x] <= SESSION_DURATION_MS} |-> store[k]]

\* clearAll (api.ts:751-755)
clearAll(store) == EmptyStore

\* one tick on every timestamp of a token map
ageAll(store) ==
  [k \in DOMAIN store |-> IF store[k] < Old THEN store[k] + 1 ELSE Old]

\* crypto.randomBytes(32) yields a value that is no live token: the values
\* in the store and the issued ones that have not yet expired are taken
TakenTokens == DOMAIN sessions \cup {k \in DOMAIN issued : issued[k] < Old}
HasFreshToken == Tokens \ TakenTokens # {}
freshToken == CHOOSE k \in Tokens \ TakenTokens : \A j \in Tokens \ TakenTokens : k <= j

\* the history after generateSession returned token
issue(token) == [k \in DOMAIN issued \cup {token} |-> IF k = token THEN 0 ELSE issued[k]]

(***************************************************************************)
(* Authentication gate: middleware/auth.ts (src/unnamed/part_001).         *)
(***************************************************************************)
\* timingSafeEqual (part_001:22-38): length check, then byte comparison
timingSafeEqual(a, b) ==
  IF Len(a) # Len(b) THEN FALSE ELSE a = b

\* a key whose last character is outside ASCII: as long as "k3y" in
\* characters, one byte longer in UTF-8
WideKey == "k3~"
byteLength(k) == IF k = WideKey THEN Len(k) + 1 ELSE Len(k)

\* crypto.timingSafeEqual(bufA, bufB) (part_001:34-37) throws a RangeError
\* for buffers of different byte length, which the check of the string
\* lengths does not exclude
timingSafeEqualThrows(a, b) ==
  Len(a) = Len(b) /\ byteLength(a) # byteLength(b)

\* requireAuth, method 1 (part_001:63-69)
sessionAccepts(store, token) ==
  token # NoToken /\ validateSession(store, token)

\* requireAuth, method 2 (part_001:72-80)
apiKeyAccepts(configured, providedKey) ==
  /\ configured # NoKey
  /\ providedKey # NoKey
  /\ timingSafeEqual(providedKey, configured)

\* requireAuth, method 2, when the comparison throws
apiKeyThrows(configured, providedKey) ==
  /\ configured # NoKey
  /\ providedKey # NoKey
  /\ timingSafeEqualThrows(providedKey, configured)

\* whether requireAuth calls timingSafeEqual (part_001:72-76): only for a
\* method other than GET, after the session token was not accepted, with a
\* key configured and a key provided
comparatorInvoked(method, store, token, configured, providedKey) ==
  /\ method # "GET"
  /\ ~sessionAccepts(store, token)
  /\ configured # NoKey
  /\ providedKey # NoKey

\* variant: the key is compared before the session token is looked at
requireAuthDecision_KeyFirst(method, store, token, configured, providedKey) ==
  IF method = "GET" THEN "skip"
  ELSE IF apiKeyThrows(configured, providedKey) THEN "throw"
  ELSE IF apiKeyAccepts(configured, providedKey) THEN "key"
  ELSE IF sessionAccepts(store, token) THEN "session"
  ELSE "deny"

\* variant: any X-API-Key is taken when a key is configured
requireAuthDecision_KeyNotCompared(method, store, token, configured, providedKey) ==
  IF method = "GET" THEN "skip"
  ELSE IF sessionAccepts(store, token) THEN "session"
  ELSE IF configured # NoKey /\ providedKey # NoKey THEN "key"
  ELSE "deny"

\* variant: without a configured key every mutating request is let through
requireAuthDecision_OpenWhenUnconfigured(method, store, token, configured, providedKey) ==
  IF method = "GET" THEN "skip"
  ELSE IF sessionAccepts(store, token) THEN "session"
  ELSE IF configured = NoKey \/ apiKeyAccepts(configured, providedKey) THEN "key"
  ELSE "deny"

\* how requireAuth lets a request through, "deny" when it answers 401,
\* "throw" when the comparison of the keys throws
requireAuthDecision(method, store, token, configured, providedKey) ==
  IF method = "GET" THEN "skip"
  ELSE IF sessionAccepts(store, token) THEN "session"
  ELSE IF apiKeyThrows(configured, providedKey) THEN "throw"
  ELSE IF apiKeyAccepts(configured, providedKey) THEN "key"
  ELSE "deny"

\* the session map after requireAuth ran: validateSession is called only for
\* a mutating request that carries a token
requireAuthStore(method, store, token) ==
  IF method # "GET" /\ token # NoToken
  THEN validateSessionStore(store, token)
  ELSE store

(***************************************************************************)
(* Rate limiter: express-rate-limit with its in-memory store, configured   *)
(* in middleware/rateLimiting.ts.  The store counts per client in a fixed  *)
(* window that starts with the first request after the previous window     *)
(* ended; the request is rejected when the count exceeds max.  An entry    *)
(* is [count, left], left the time until resetTime.                        *)
(***************************************************************************)
windowMs(tier) ==
  CASE tier = "global" -> GLOBAL_WINDOW_MS
    [] tier = "write" -> WRITE_WINDOW_MS
    [] tier = "session" -> SESSION_WINDOW_MS

max(tier) ==
  CASE tier = "global" -> GLOBAL_MAX
    [] tier = "write" -> WRITE_MAX
    [] tier = "session" -> SESSION_MAX

NoHits == [count |-> 0, left |-> 0]

\* variant: a hit that arrives while another request waits for the disk is
\* written over when that request resumes, and is lost
increment_Unsynchronized(e, tier) ==
  IF \E x \in DOMAIN req : req[x].pc = "Handler" THEN e
  ELSE IF e.left = 0
  THEN [count |-> 1, left |-> windowMs(tier)]
  ELSE [count |-> e.count + 1, left |-> e.left]

\* store.increment(key): a window that has ended (resetTime <= now) is
\* reset, then the hit counts
increment(e, tier) ==
  IF e.left = 0
  THEN [count |-> 1, left |-> windowMs(tier)]
  ELSE [count |-> e.count + 1, left |-> e.left]

\* variant: the limiter rejects already at max
limitExceeded_AtMax(e, tier) == e.count >= max(tier)

\* the limiter rejects when totalHits > max
limitExceeded(e, tier) == e.count > max(tier)

\* one tick on a limiter's store; an entry whose window has ended is dropped
expire(store) ==
  [c \in Clients |-> IF store[c].left <= 1 THEN NoHits
                     ELSE [store[c] EXCEPT !.left = @ - 1]]

(***************************************************************************)
(* Requests.                                                               *)
(***************************************************************************)
\* the JSON object a response carries: the keys it has, and the values of
\* success, error and details; a text is a sequence of pieces; details is
\* absent, a text, or an array
NoDetails == [kind |-> "absent", text |-> <<>>, items |-> <<>>]
TextDetails(text) == [kind |-> "string", text |-> text, items |-> <<>>]
ArrayDetails(items) == [kind |-> "array", text |-> <<>>, items |-> items]
NoJson == [keys |-> {}, success |-> "-", error |-> <<>>, details |-> NoDetails]

\* { success: false, error }
Failure(error) ==
  [keys |-> {"success", "error"}, success |-> "false", error |-> error,
   details |-> NoDetails]

\* { success: false, error, details }
FailureDetails(error, details) ==
  [keys |-> {"success", "error", "details"}, success |-> "false",
   error |-> error, details |-> details]

\* the object of a 2xx response: { status: 'ok' }, { success: true },
\* { success: true, token } or the content of a data file
Data(keys, success) ==
  [keys |-> keys, success |-> success, error |-> <<>>, details |-> NoDetails]

\* the argument of res.json of a request; nothing is sent, and the call
\* throws, once a response has started
Json(q, body) == IF q.sent THEN q ELSE [q EXCEPT !.json = body]

\* how the body of a request travels and the two headers about it: no body
\* (Content-Length absent or 0), a body of a declared length, or a chunked
\* body, which has no Content-Length; Content-Type is a text, empty when the
\* header is absent
NoHeaders == [transfer |-> "-", contentLength |-> "-", contentType |-> <<>>]
Headers(transfer, contentLength, contentType) ==
  [transfer |-> transfer, contentLength |-> contentLength,
   contentType |-> contentType]

Blank ==
  [pc |-> "Idle", method |-> "-", route |-> "-", client |-> "-", code |-> "-",
   content |-> "-", body |-> "-", tokenIs |-> "-", keyIs |-> "-",
   auth |-> "-", sent |-> FALSE, status |-> 0, sentBy |-> "-",
   timer |-> "off", left |-> 0, fin |-> FALSE, closed |-> FALSE,
   wrote |-> FALSE, level |-> "-", requestId |-> "-", log |-> {},
   path |-> <<>>, inside |-> "-", errors |-> <<>>, details |-> <<>>,
   issued |-> NoToken, dropped |-> FALSE, seen |-> EmptyStore, stages |-> <<>>,
   json |-> NoJson, headers |-> NoHeaders, compared |-> "-"]

Mutating(m) == m \in {"POST", "PUT", "PATCH", "DELETE"}

\* the page before it is opened: fileService's sessionToken is null, and
\* DyeForm's refs have their initial values, serverOnline = ref(true)
\* (fileService.ts:14, DyeForm.vue:29-30); health and submit are the places
\* where checkServerHealth and handleSubmit stand, calls the mutation
\* requests of the submission with the X-Session-Token each was sent with,
\* written the files whose write reported success
BlankPage ==
  [sessionToken |-> NoToken, serverOnline |-> TRUE, isSubmitting |-> FALSE,
   valid |-> FALSE, health |-> "closed", submit |-> "idle", locale |-> 0,
   errors |-> <<>>, calls |-> <<>>, written |-> {}, result |-> "-",
   submits |-> 0]

(***************************************************************************)
(* Startup: validateBasePaths, then app.listen or process.exit(1)          *)
(* (api.ts:482-500, utils/pathValidation.ts:19-53).                        *)
(***************************************************************************)
\* what the disk holds at startup: whether the xivdyetools-core directory
\* exists and the process may list it (read) and create entries in it
\* (write), and whether fs.access(p, R_OK | W_OK) succeeds for the colors
\* file and for the locales directory; nothing below a directory that does
\* not exist is accessible
Disks ==
  {d \in [rootExists : BOOLEAN, rootReadable : BOOLEAN, rootWritable : BOOLEAN,
          colorsAccess : BOOLEAN, localesAccess : BOOLEAN] :
     ~d.rootExists =>
        ~(d.rootReadable \/ d.rootWritable \/ d.colorsAccess \/ d.localesAccess)}

GoodDisk ==
  [rootExists |-> TRUE, rootReadable |-> TRUE, rootWritable |-> TRUE,
   colorsAccess |-> TRUE, localesAccess |-> TRUE]

Process(phase, disk) == [phase |-> phase, exit |-> "-", disk |-> disk]

\* a log line of a request: who wrote it and the requestId in it; NoId for a
\* line written without one (console.warn, console.log)
NoId == "none"
Log(q, by, id) == [q EXCEPT !.log = @ \cup {<<by, id>>}]

\* variant: every 2xx response is logged as a mutation
logLevel_AuditAnyMethod(method, statusCode) ==
  IF statusCode >= 200 /\ statusCode < 300 THEN "AUDIT"
  ELSE IF statusCode >= 400 THEN "WARN"
  ELSE "INFO"

\* the level at which the res.send override of requestLogger logs the
\* response (requestLogger.ts:81-91)
logLevel(method, statusCode) ==
  IF method \in {"POST", "PUT", "DELETE", "PATCH"}
     /\ statusCode >= 200 /\ statusCode < 300 THEN "AUDIT"
  ELSE IF statusCode >= 400 THEN "WARN"
  ELSE "INFO"

\* a stage's position is recorded in stages, the request's history
Stage(q, pc, name) == [q EXCEPT !.pc = pc, !.stages = Append(@, name)]

\* variant: the client is sent the message of the error
globalErrorHandler_SendsMessage(q) ==
  LET l == Log(q, "globalErrorHandler", q.requestId)
  IN IF l.sent
     THEN [l EXCEPT !.pc = "Ended"]
     ELSE [l EXCEPT !.pc = "Ended", !.sent = TRUE, !.status = 500,
                    !.sentBy = "globalErrorHandler",
                    !.level = logLevel(q.method, 500),
                    !.log = @ \cup {<<"requestLogger", q.requestId>>},
                    !.stages = Append(@, "ResponseSent"),
                    !.json = Failure(<<"Unexpected token in JSON">>)]

\* globalErrorHandler (part_000:34-58): the error is logged with the id of
\* the request; the generic object is sent with status 500 unless a response
\* has started
globalErrorHandler(q) ==
  LET l == Log(q, "globalErrorHandler", q.requestId)
  IN IF l.sent
     THEN [l EXCEPT !.pc = "Ended"]
     ELSE [l EXCEPT !.pc = "Ended", !.sent = TRUE, !.status = 500,
                    !.sentBy = "globalErrorHandler",
                    !.level = logLevel(q.method, 500),
                    !.log = @ \cup {<<"requestLogger", q.requestId>>},
                    !.stages = Append(@, "ResponseSent"),
                    !.json = Failure(<<"Internal server error">>)]

\* variant: a stage that answers does not stop the chain
Respond_Continue(q, st, by) ==
  IF q.sent
  THEN q
  ELSE [q EXCEPT !.sent = TRUE, !.status = st, !.sentBy = by,
                 !.level = logLevel(q.method, st),
                 !.log = @ \cup {<<"requestLogger", q.requestId>>},
                 !.stages = Append(@, "ResponseSent")]

\* res.status(st).json(...): once headers are sent the call throws and
\* nothing more is sent; globalErrorHandler (part_000:52) sends only
\* when no response has started
Respond(q, st, by) ==
  IF q.sent
  THEN globalErrorHandler(q)
  ELSE [q EXCEPT !.pc = "Ended", !.sent = TRUE, !.status = st, !.sentBy = by,
                 !.level = logLevel(q.method, st),
                 !.log = @ \cup {<<"requestLogger", q.requestId>>},
                 !.stages = Append(@, "ResponseSent")]

\* what the X-Session-Token of a request is when requireAuth reads it:
\* absent, or the key of an entry of the store that is not older than the
\* session duration, or anything else
tokenClass(tk) ==
  IF tk = NoToken THEN "none"
  ELSE IF tk \in DOMAIN sessions /\ sessions[tk] <= SESSION_DURATION_MS THEN "valid"
  ELSE "invalid"
\* what its X-API-Key is against MAINTAINER_API_KEY
keyClass(k) ==
  IF k = NoKey THEN "none"
  ELSE IF API_KEY # NoKey /\ k = API_KEY THEN "right" ELSE "wrong"

\* the tokens issued that have not expired
LiveTokens == {k \in DOMAIN issued : ~isExpired(issued[k])}

\* requests that will still ask generateSession for a token
PendingSessions ==
  {x \in Reqs : /\ req[x].method = "POST" /\ req[x].route = "session"
                /\ req[x].pc \notin {"Idle", "Ended"}}

Init ==
  /\ server = Process("listening", GoodDisk)
  /\ API_KEY \in {NoKey, "k3y"}
  /\ sessions = EmptyStore
  /\ issued = EmptyStore
  /\ cleared = {}
  /\ hits = [t \in Tiers |-> [c \in Clients |-> NoHits]]
  /\ files = [f \in Files |-> "orig"]
  /\ page = BlankPage
  /\ req = [r \in Reqs |-> Blank]

\* a connection delivers a request: there is none before app.listen
\* (api.ts:485) and none after process.exit
Receive(r) ==
  /\ server.phase = "listening"
  /\ req[r].pc = "Idle"
  /\ \E m \in Methods, rt \in Routes, c \in Clients, cd \in Codes \cup {"-"} :
       /\ (rt = "locale") = (cd # "-")
       /\ hits["global"][c].count < GLOBAL_MAX + MaxOver
       /\ (m = "POST" /\ rt \in {"colors", "locale"})
            => hits["write"][c].count < WRITE_MAX + MaxOver
       /\ (m = "POST" /\ rt = "session")
            => hits["session"][c].count < SESSION_MAX + MaxOver
       /\ (m = "POST" /\ rt = "session")
            => /\ Cardinality(Tokens \ TakenTokens) > Cardinality(PendingSessions \ {r})
               /\ Cardinality(LiveTokens) + Cardinality(PendingSessions \ {r}) < MaxLive
       /\ req' = [req EXCEPT ![r] =
                    [Blank EXCEPT !.pc = "Received", !.method = m, !.route = rt,
                                  !.client = c, !.code = cd,
                                  !.stages = <<"Received">>]]
  /\ UNCHANGED <<server, API_KEY, sessions, issued, cleared, hits, files, page>>

\* requestTimeout (timeout.ts:39-74): arm the timer, next()
requestTimeout(r) ==
  /\ req[r].pc = "Received"
  /\ req' = [req EXCEPT ![r] =
               [Stage(@, "TimeoutArmed", "TimeoutArmed")
                  EXCEPT !.timer = "armed", !.left = TIMEOUT_MS]]
  /\ UNCHANGED <<server, API_KEY, sessions, issued, cleared, hits, files, page>>

\* requestLogger (requestLogger.ts:45-98): assign the request id, log the
\* incoming request, next()
requestLogger(r) ==
  /\ req[r].pc = "TimeoutArmed"
  /\ req' = [req EXCEPT ![r] =
               Log([Stage(@, "Logged", "Logged") EXCEPT !.requestId = r],
                   "requestLogger", r)]
  /\ UNCHANGED <<server, API_KEY, sessions, issued, cleared, hits, files, page>>

\* the request's record of the count a tier's limiter reached with it
Saw(q, tier, n) ==
  [t \in DOMAIN q.seen \cup {tier} |-> IF t = tier THEN n ELSE q.seen[t]]

\* the message option of the limiter of a tier (rateLimiting.ts:25-28,
\* 44-47, 63-66)
limiterMessage(tier) ==
  CASE tier = "global" ->
         <<"Too many requests from this IP, please try again later.">>
    [] tier = "write" -> <<"Too many write requests, please slow down.">>
    [] tier = "session" -> <<"Too many session requests, please wait.">>

\* one limiter of tier on request r standing at pc from
Limiter(r, tier, from, to, name, by) ==
  /\ req[r].pc = from
  /\ LET c == req[r].client
         e == increment(hits[tier][c], tier)
     IN /\ hits' = [hits EXCEPT ![tier][c] = e]
        /\ req' = [req EXCEPT ![r] =
                     LET q == [req[r] EXCEPT !.seen = Saw(req[r], tier, e.count)]
                     IN IF limitExceeded(e, tier)
                        THEN Respond(Json(Stage(q, q.pc, name),
                                          Failure(limiterMessage(tier))),
                                     429, by)
                        ELSE Stage(q, to, name)]
  /\ UNCHANGED <<server, API_KEY, sessions, issued, cleared, files, page>>

\* variant: the limiter mounted on every request counts in the write tier
globalLimiter_OnWriteTier(r) ==
  Limiter(r, "write", "Logged", "RateChecked", "RateChecked", "globalLimiter")

\* app.use(globalLimiter) (api.ts:257)
globalLimiter(r) ==
  Limiter(r, "global", "Logged", "RateChecked", "RateChecked", "globalLimiter")

\* contentType.includes('application/json')
includesJson(contentType) ==
  \E i \in DOMAIN contentType : contentType[i] = "application/json"

\* the test of validateContentType (part_002:31-58): a method with a body,
\* a Content-Length that is present and not '0', and a Content-Type that is
\* missing or does not contain 'application/json'
unsupportedMediaType(method, h) ==
  /\ method \in {"POST", "PUT", "PATCH", "DELETE"}
  /\ h.contentLength \notin {"absent", "0"}
  /\ h.contentType = <<>> \/ ~includesJson(h.contentType)

\* the headers of the three kinds of request content of the pipeline
HeadersOf(ct) ==
  CASE ct = "none" -> Headers("none", "absent", <<>>)
    [] ct = "json" -> Headers("length", "5", <<"application/json">>)
    [] ct = "other" -> Headers("length", "5", <<"text/plain">>)

\* validateContentType (part_002:31-72); content is "none" without a body
\* (no Content-Length, or 0), else "json" or "other" by the Content-Type
validateContentType(r) ==
  /\ req[r].pc = "RateChecked"
  /\ \E ct \in {"none", "json", "other"} :
       req' = [req EXCEPT ![r] =
                 LET q == [Stage(@, "ContentTypeChecked", "ContentTypeChecked")
                             EXCEPT !.content = ct, !.headers = HeadersOf(ct)]
                 IN IF unsupportedMediaType(q.method, q.headers)
                    THEN Respond(
                           Json(Log(q, "validateContentType", q.requestId),
                                FailureDetails(
                                  <<"Unsupported Media Type">>,
                                  TextDetails(
                                    <<"Content-Type must be application/json">>))),
                           415, "validateContentType")
                    ELSE q]
  /\ UNCHANGED <<server, API_KEY, sessions, issued, cleared, hits, files, page>>

\* variant: a body that does not parse is handed on as it is
jsonParser_Lenient(r) ==
  /\ req[r].pc = "ContentTypeChecked"
  /\ \E b \in Payloads \cup {"invalid", "malformed", "empty"} :
       /\ (b = "empty") = (req[r].content # "json")
       /\ req[r].closed => b = "malformed"
       /\ req' = [req EXCEPT ![r] = [@ EXCEPT !.pc = "BodyParsed", !.body = b]]
  /\ UNCHANGED <<server, API_KEY, sessions, issued, cleared, hits, files, page>>

\* express.json (api.ts:274): a JSON body is read and parsed; a body that
\* does not parse, or that the closing connection cut off, goes to
\* globalErrorHandler, which answers 500
jsonParser(r) ==
  /\ req[r].pc = "ContentTypeChecked"
  /\ \E b \in Payloads \cup {"invalid", "malformed", "empty"} :
       /\ (b = "empty") = (req[r].content # "json")
       /\ req[r].closed => b = "malformed"
       /\ req' = [req EXCEPT ![r] =
                    IF b = "malformed"
                    THEN globalErrorHandler([@ EXCEPT !.body = b])
                    ELSE [@ EXCEPT !.pc = "BodyParsed", !.body = b]]
  /\ UNCHANGED <<server, API_KEY, sessions, issued, cleared, hits, files, page>>

\* app.use('/api', requireAuth) (api.ts:281, part_001:55-88); the headers
\* are read only for a method other than GET
authGateWith(r, tk, k) ==
  /\ req[r].pc = "BodyParsed"
  /\ req[r].route # "nonapi"
  /\   LET m == req[r].method
           d == requireAuthDecision(m, sessions, tk, API_KEY, k)
           gone == requireAuthStore(m, sessions, tk) # sessions
           q0 == [Stage(req[r], "AuthChecked", "AuthChecked")
                    EXCEPT !.tokenIs = IF m = "GET" THEN "-" ELSE tokenClass(tk),
                           !.keyIs = IF m = "GET" THEN "-" ELSE keyClass(k),
                           !.auth = d,
                           !.compared =
                             IF comparatorInvoked(m, sessions, tk, API_KEY, k)
                             THEN "yes" ELSE "no",
                           !.dropped = gone]
           \* validateSession warns of the expired session it removes
           \* (api.ts:720)
           q == IF gone THEN Log(q0, "sessionManager", NoId) ELSE q0
       IN /\ sessions' = requireAuthStore(m, sessions, tk)
          /\ req' = [req EXCEPT ![r] =
                       IF d = "deny"
                       THEN Respond(Json(Log(q, "requireAuth", NoId),
                                         Failure(<<"Unauthorized">>)),
                                    401, "requireAuth")
                       ELSE IF d = "throw" THEN globalErrorHandler(q)
                       ELSE q]
  /\ UNCHANGED <<server, API_KEY, issued, cleared, hits, files, page>>

\* the gate on a request with any X-Session-Token, absent, forged or once
\* issued, and an X-API-Key of keys
authGate(r, keys) ==
  \E tk \in {NoToken, ForgedToken} \cup DOMAIN issued, k \in keys :
    authGateWith(r, tk, k)

\* the gate on a request whose X-API-Key is absent or one of KeyValues
requireAuth(r) == authGate(r, {NoKey} \cup KeyValues)

\* a path outside /api does not pass through requireAuth
skipAuth(r) ==
  /\ req[r].pc = "BodyParsed"
  /\ req[r].route = "nonapi"
  /\ req' = [req EXCEPT ![r] = [@ EXCEPT !.pc = "AuthChecked", !.auth = "unmounted"]]
  /\ UNCHANGED <<server, API_KEY, sessions, issued, cleared, hits, files, page>>

(***************************************************************************)
(* Path containment: utils/pathValidation.ts.  A path is a string, written *)
(* as the sequence of its pieces: the separator "/" and pieces of names.   *)
(* No piece is the beginning of another, so one string is the beginning of *)
(* another exactly when its sequence is.                                   *)
(***************************************************************************)
Sep == "/"
CORE_PATH == <<Sep, "xivdyetools-core">>
LOCALES_PATH == CORE_PATH \o <<Sep, "src", Sep, "data", Sep, "locales">>

\* process.cwd(), against which path.resolve completes a relative path
Cwd == CORE_PATH

RECURSIVE splitPath(_, _, _)
\* the names of a path between separators, empty names left out
splitPath(p, cur, acc) ==
  IF p = <<>> THEN (IF cur = <<>> THEN acc ELSE Append(acc, cur))
  ELSE IF Head(p) = Sep
       THEN splitPath(Tail(p), <<>>, IF cur = <<>> THEN acc ELSE Append(acc, cur))
       ELSE splitPath(Tail(p), Append(cur, Head(p)), acc)

RECURSIVE dropDots(_, _)
\* ".." removes the name before it, and nothing at the root
dropDots(segs, acc) ==
  IF segs = <<>> THEN acc
  ELSE IF Head(segs) = <<"..">>
       THEN dropDots(Tail(segs),
                     IF acc = <<>> THEN acc ELSE SubSeq(acc, 1, Len(acc) - 1))
       ELSE dropDots(Tail(segs), Append(acc, Head(segs)))

RECURSIVE joinPath(_)
joinPath(segs) ==
  IF segs = <<>> THEN <<>> ELSE <<Sep>> \o Head(segs) \o joinPath(Tail(segs))

\* the names of the absolute path that path.resolve makes of p
resolvedNames(p) ==
  dropDots(splitPath(IF p # <<>> /\ Head(p) = Sep THEN p ELSE Cwd \o <<Sep>> \o p,
                     <<>>, <<>>), <<>>)

\* path.normalize(path.resolve(p)): an absolute path without "..", without
\* empty names and without a separator at its end; the root is "/"
normalize(p) ==
  IF resolvedNames(p) = <<>> THEN <<Sep>> ELSE joinPath(resolvedNames(p))

\* String.prototype.startsWith
startsWith(str, prefix) ==
  Len(str) >= Len(prefix) /\ SubSeq(str, 1, Len(prefix)) = prefix

\* variant: the beginning is compared without the separator
validateFilePath_NoSeparator(filePath, basePath) ==
  startsWith(normalize(filePath), normalize(basePath))

\* validateFilePath (pathValidation.ts:77-99)
validateFilePath(filePath, basePath) ==
  LET normalizedFile == normalize(filePath)
      normalizedBase == normalize(basePath)
  IN \/ normalizedFile = normalizedBase
     \/ startsWith(normalizedFile, normalizedBase \o <<Sep>>)

\* the pieces of a locale code as it stands in the URL parameter
codePieces(code) == IF code = "../en" THEN <<"..", Sep, "en">> ELSE <<code>>

\* path.join(LOCALES_PATH, `${code}.json`) (api.ts:363, 397)
localeFilePath(code) ==
  normalize(LOCALES_PATH \o <<Sep>> \o codePieces(code) \o <<".json">>)

(***************************************************************************)
(* Routes (api.ts:303-472).                                                *)
(***************************************************************************)
IsSessionRoute(q) == q.method = "POST" /\ q.route = "session"
IsWriteRoute(q) == q.method = "POST" /\ q.route \in {"colors", "locale"}
IsReadRoute(q) == q.method = "GET" /\ q.route \in {"colors", "locale"}
IsHealthRoute(q) == q.method = "GET" /\ q.route = "health"
IsUnrouted(q) ==
  ~(IsSessionRoute(q) \/ IsWriteRoute(q) \/ IsReadRoute(q) \/ IsHealthRoute(q))

\* the file a colors or locale route works on
TargetFile(q) == IF q.route = "colors" THEN "colors" ELSE q.code

\* POST /api/auth/session: sessionLimiter (api.ts:312)
sessionLimiter(r) ==
  /\ IsSessionRoute(req[r])
  /\ Limiter(r, "session", "AuthChecked", "TierChecked", "RateChecked", "sessionLimiter")

\* variant: the write limiter does not hand the request on and runs again
writeLimiter_Again(r) ==
  /\ req[r].method = "POST"
  /\ req[r].route \in {"colors", "locale"}
  /\ Limiter(r, "write", "AuthChecked", "AuthChecked", "RateChecked", "writeLimiter")

\* variant: the locale route has a limiter of its own, which counts apart
\* from the limiter of the colors route
writeLimiter_PerRoute(r) ==
  /\ IsWriteRoute(req[r])
  /\ IF req[r].route = "colors"
     THEN Limiter(r, "write", "AuthChecked", "TierChecked", "RateChecked", "writeLimiter")
     ELSE /\ req[r].pc = "AuthChecked"
          /\ req' = [req EXCEPT ![r] =
                       Stage([@ EXCEPT !.seen = Saw(req[r], "write", 1)],
                             "TierChecked", "RateChecked")]
          /\ UNCHANGED <<server, API_KEY, sessions, issued, cleared, hits, files, page>>

\* POST /api/colors and POST /api/locale/:code: writeLimiter (api.ts:337, 388)
writeLimiter(r) ==
  /\ IsWriteRoute(req[r])
  /\ Limiter(r, "write", "AuthChecked", "TierChecked", "RateChecked", "writeLimiter")

\* POST /api/auth/session handler (api.ts:312-315)
sessionHandler(r) ==
  /\ req[r].pc = "TierChecked"
  /\ IsSessionRoute(req[r])
  /\ HasFreshToken
  /\ sessions' = generateSession(sessions, freshToken)
  /\ issued' = issue(freshToken)
  /\ cleared' = cleared \ {freshToken}
  /\ req' = [req EXCEPT ![r] =
               Respond(Json(Log([Stage(@, "Handler", "Handler")
                                   EXCEPT !.issued = freshToken],
                                "sessionManager", NoId),
                            Data({"success", "token"}, "true")),
                       200, "handler")]
  /\ UNCHANGED <<server, API_KEY, hits, files, page>>

(***************************************************************************)
(* Schema errors and what the client is told of them                       *)
(* (middleware/rateLimiting.ts:136-202, middleware/validation.ts:16-58).   *)
(* A string is the sequence of its pieces.                                 *)
(***************************************************************************)
ZodCodes ==
  {"invalid_type", "invalid_string", "invalid_literal", "too_small", "too_big",
   "invalid_enum_value", "custom"}

\* one entry of ZodError.errors: where the value stood, what was wrong with
\* it, the value, and zod's own message, which names the value
Issue(path, code, received) ==
  [path |-> path, code |-> code, received |-> received,
   message |-> <<code, ", received '", received, "'">>]

\* variant: a kind the switch does not name is handed on as it is
mapZodErrorCode_PassThrough(zodCode) ==
  CASE zodCode = "invalid_type" -> "INVALID_TYPE"
    [] zodCode \in {"invalid_string", "invalid_literal"} -> "INVALID_FORMAT"
    [] zodCode = "too_small" -> "TOO_SMALL"
    [] zodCode = "too_big" -> "TOO_BIG"
    [] zodCode = "invalid_enum_value" -> "INVALID_ENUM"
    [] OTHER -> zodCode

\* mapZodErrorCode (rateLimiting.ts:155-171)
mapZodErrorCode(zodCode) ==
  CASE zodCode = "invalid_type" -> "INVALID_TYPE"
    [] zodCode \in {"invalid_string", "invalid_literal"} -> "INVALID_FORMAT"
    [] zodCode = "too_small" -> "TOO_SMALL"
    [] zodCode = "too_big" -> "TOO_BIG"
    [] zodCode = "invalid_enum_value" -> "INVALID_ENUM"
    [] OTHER -> "UNKNOWN"

RECURSIVE joinDots(_)
\* err.path.join('.')
joinDots(path) ==
  IF path = <<>> THEN <<>>
  ELSE IF Len(path) = 1 THEN path
  ELSE <<Head(path), ".">> \o joinDots(Tail(path))

\* getGenericErrorMessage (rateLimiting.ts:180-202)
getGenericErrorMessage(code, field) ==
  LET fieldDisplay == IF field = <<>> THEN <<"this field">> ELSE field
  IN <<"Field '">> \o fieldDisplay \o
     << CASE code = "INVALID_TYPE" -> "' has invalid type"
          [] code = "INVALID_FORMAT" -> "' has invalid format"
          [] code = "REQUIRED_FIELD" -> "' is required"
          [] code = "TOO_SMALL" -> "' value is too small"
          [] code = "TOO_BIG" -> "' value is too large"
          [] code = "OUT_OF_RANGE" -> "' is out of valid range"
          [] code = "INVALID_ENUM" -> "' has invalid value"
          [] OTHER -> "' failed validation" >>

\* variant: the client is told zod's message
sanitizeZodError_ZodMessage(errors) ==
  [i \in DOMAIN errors |->
     [field |-> joinDots(errors[i].path),
      code |-> mapZodErrorCode(errors[i].code),
      message |-> errors[i].message]]

\* sanitizeZodError (rateLimiting.ts:136-147)
sanitizeZodError(errors) ==
  [i \in DOMAIN errors |->
     LET code == mapZodErrorCode(errors[i].code)
         field == joinDots(errors[i].path)
     IN [field |-> field, code |-> code,
         message |-> getGenericErrorMessage(code, field)]]

\* what schema.parse throws for the body of the model that fails the schema:
\* [{itemID: "not-a-number", ...}] against DyeArraySchema
InvalidBodyErrors == <<Issue(<<"0", "itemID">>, "invalid_type", "not-a-number")>>

\* the catch branch of validateBody for a ZodError (validation.ts:25-41)
ValidationFailed(q, errors) ==
  Respond(Json(Log([q EXCEPT !.errors = errors,
                             !.details = sanitizeZodError(errors)],
                   "validateBody", NoId),
               FailureDetails(<<"Validation failed">>,
                              ArrayDetails(sanitizeZodError(errors)))),
          400, "validateBody")

\* variant: a body that the schema rejects gives its write hit back
validateBody_Refunds(r) ==
  /\ req[r].pc = "TierChecked"
  /\ IsWriteRoute(req[r])
  /\ req' = [req EXCEPT ![r] =
               IF @.body \in Payloads
               THEN Stage(@, "SchemaValidated", "SchemaValidated")
               ELSE ValidationFailed(Stage(@, @.pc, "SchemaValidated"),
                                     InvalidBodyErrors)]
  /\ hits' = IF req[r].body \in Payloads \/ hits["write"][req[r].client].count = 0
             THEN hits
             ELSE [hits EXCEPT !["write"][req[r].client].count = @ - 1]
  /\ UNCHANGED <<server, API_KEY, sessions, issued, cleared, files, page>>

\* validateBody(schema) (validation.ts:16-58)
validateBody(r) ==
  /\ req[r].pc = "TierChecked"
  /\ IsWriteRoute(req[r])
  /\ req' = [req EXCEPT ![r] =
               IF @.body \in Payloads
               THEN Stage(@, "SchemaValidated", "SchemaValidated")
               ELSE ValidationFailed(Stage(@, @.pc, "SchemaValidated"),
                                     InvalidBodyErrors)]
  /\ UNCHANGED <<server, API_KEY, sessions, issued, cleared, hits, files, page>>

\* for each code a request can carry, the path the locale handlers build
\* from it and what validateFilePath says of that path
LocalePath == [code \in Codes |-> localeFilePath(code)]
LocaleInside == [code \in Codes |-> validateFilePath(LocalePath[code], LOCALES_PATH)]

\* variant: the locale handlers do not look at the code
handlerChecks_AnyCode(q) ==
  \/ q.route = "colors"
  \/ LocaleInside[q.code]

\* the locale handlers' checks before any file operation (api.ts:355-368,
\* 389-402); TRUE for the colors routes, which have none
handlerChecks(q) ==
  \/ q.route = "colors"
  \/ /\ q.code \in validCodes
     /\ LocaleInside[q.code]

\* what a locale handler has computed when its checks are over: no path
\* for a code outside the list, else the path and the result of
\* validateFilePath
Checked(q) ==
  IF q.route = "colors" \/ q.code \notin validCodes THEN q
  ELSE [q EXCEPT !.path = LocalePath[q.code],
                 !.inside = IF LocaleInside[q.code] THEN "yes" ELSE "no"]

\* a colors or locale handler starts: checks, then the file operation begins
\* the error text of a handler whose file operation failed (api.ts:329,
\* 349, 381, 415)
failedTo(verb, q) ==
  IF q.route = "colors" THEN <<"Failed to ", verb, " colors file">>
  ELSE <<"Failed to ", verb, " locale file: ", q.code>>

\* the top-level keys of the data a read route sends: colors_xiv.json is an
\* array, a locale file an object (schemas.ts:47, 77-93)
fileKeys(q) ==
  IF q.route = "colors" THEN {}
  ELSE {"locale", "meta", "labels", "dyeNames"}

\* what becomes of the promise of an async route handler that is rejected:
\* a router that never looks at the promise leaves an unhandledRejection,
\* which ends a Node.js 18 process that installs no listener for it; a
\* router that awaits it passes the reason to globalErrorHandler. The
\* express release installed decides which
HandlerRejections == {"unhandledRejection", "next(err)"}

\* the try block of an async handler has run: where the file operation
\* failed, or the response could not be sent because one has started
\* (res.json throws ERR_HTTP_HEADERS_SENT), the catch block logs
\* (api.ts:341-349)
tried(q, ok) == IF ok /\ ~q.sent THEN q ELSE Log(q, "handler", q.requestId)

\* an async handler answers with res.status(st).json (api.ts:339, 349, 359,
\* 367): when a response has started the call throws, in the catch block or
\* outside the try block, and the handler's promise is rejected
asyncAnswer(r, q, st) ==
  IF ~q.sent
  THEN /\ req' = [req EXCEPT ![r] = Respond(q, st, "handler")]
       /\ UNCHANGED server
  ELSE \E fate \in HandlerRejections :
         IF fate = "unhandledRejection"
         THEN /\ req' = [req EXCEPT ![r] = [q EXCEPT !.pc = "Ended"]]
              /\ server' = [server EXCEPT !.phase = "exited", !.exit = "1"]
         ELSE /\ req' = [req EXCEPT ![r] = globalErrorHandler(q)]
              /\ UNCHANGED server

handlerBegin(r) ==
  /\ \/ req[r].pc = "SchemaValidated" /\ IsWriteRoute(req[r])
     \/ req[r].pc = "AuthChecked" /\ IsReadRoute(req[r])
  /\ IF handlerChecks(req[r])
     THEN /\ req' = [req EXCEPT ![r] = Stage(Checked(@), "Handler", "Handler")]
          /\ UNCHANGED server
     ELSE asyncAnswer(r, Json(Stage(Checked(req[r]), req[r].pc, "Handler"),
                              Failure(<<"Invalid locale code">>)),
                      400)
  /\ UNCHANGED <<API_KEY, sessions, issued, cleared, hits, files, page>>

\* writeJsonFile completes or fails, then the handler answers
\* (api.ts:338-350, 404-415)
writeEnd(r) ==
  /\ req[r].pc = "Handler"
  /\ IsWriteRoute(req[r])
  /\ \E ok \in BOOLEAN :
       /\ files' = IF ok THEN [files EXCEPT ![TargetFile(req[r])] = req[r].body]
                         ELSE files
       /\ asyncAnswer(r, Json(tried([req[r] EXCEPT !.wrote = ok], ok),
                               IF ok THEN Data({"success"}, "true")
                               ELSE Failure(failedTo("write", req[r]))),
                       IF ok THEN 200 ELSE 500)
  /\ UNCHANGED <<API_KEY, sessions, issued, cleared, hits, page>>

\* readJsonFile completes or fails, then the handler answers
\* (api.ts:319-331, 370-381)
readEnd(r) ==
  /\ req[r].pc = "Handler"
  /\ IsReadRoute(req[r])
  /\ \E ok \in BOOLEAN :
       asyncAnswer(r, Json(tried(req[r], ok),
                            IF ok THEN Data(fileKeys(req[r]), "-")
                            ELSE Failure(failedTo("read", req[r]))),
                   IF ok THEN 200 ELSE 500)
  /\ UNCHANGED <<API_KEY, sessions, issued, cleared, hits, files, page>>

\* GET /api/health (api.ts:306-308)
healthHandler(r) ==
  /\ req[r].pc = "AuthChecked"
  /\ IsHealthRoute(req[r])
  /\ req' = [req EXCEPT ![r] =
               Respond(Json(Stage(@, "Handler", "Handler"),
                            Data({"status"}, "-")),
                       200, "handler")]
  /\ UNCHANGED <<server, API_KEY, sessions, issued, cleared, hits, files, page>>

\* notFoundHandler (api.ts:472, part_000:69-82)
notFoundHandler(r) ==
  /\ req[r].pc = "AuthChecked"
  /\ IsUnrouted(req[r])
  /\ req' = [req EXCEPT ![r] =
               Respond(Json(Log(@, "notFoundHandler", @.requestId),
                            Failure(<<"Not Found">>)),
                       404, "notFoundHandler")]
  /\ UNCHANGED <<server, API_KEY, sessions, issued, cleared, hits, files, page>>

(***************************************************************************)
(* Timer of the timeout guard and completion of the response.              *)
(***************************************************************************)
\* the request waits for its body or for the disk: timers can run
Waiting(q) ==
  \/ q.pc = "ContentTypeChecked" /\ q.content = "json"
  \/ q.pc = "Handler"

\* variant: the callback sends nothing
timeoutFire_Silent(r) ==
  /\ req[r].timer = "armed"
  /\ req[r].left = 0
  /\ req[r].pc \in {"ContentTypeChecked", "Handler"}
  /\ req' = [req EXCEPT ![r] = [@ EXCEPT !.timer = "fired"]]
  /\ UNCHANGED <<server, API_KEY, sessions, issued, cleared, hits, files, page>>

\* the setTimeout callback (timeout.ts:44-56)
timeoutFire(r) ==
  /\ req[r].timer = "armed"
  /\ req[r].left = 0
  /\ Waiting(req[r])
  /\ req' = [req EXCEPT ![r] =
               IF @.sent
               THEN [@ EXCEPT !.timer = "fired"]
               ELSE [@ EXCEPT !.timer = "fired", !.sent = TRUE, !.status = 408,
                              !.sentBy = "requestTimeout",
                              !.json = Failure(<<"Request timeout">>),
                              !.level = logLevel(req[r].method, 408),
                              !.log = @ \cup {<<"requestTimeout", NoId>>,
                                              <<"requestLogger", req[r].requestId>>},
                              !.stages = Append(@, "TimedOut")]]
  /\ UNCHANGED <<server, API_KEY, sessions, issued, cleared, hits, files, page>>

\* res 'finish' (timeout.ts:59-61): the response is out, clearTimeout
finish(r) ==
  /\ server.phase = "listening"
  /\ req[r].sent
  /\ ~req[r].fin
  /\ req' = [req EXCEPT ![r] =
               [@ EXCEPT !.fin = TRUE,
                         !.timer = IF @ = "armed" THEN "cleared" ELSE @,
                         !.left = 0,
                         !.stages = Append(@, "TimeoutDisarmed")]]
  /\ UNCHANGED <<server, API_KEY, sessions, issued, cleared, hits, files, page>>

\* variant: the 'close' listener leaves the timer alone
close_KeepsTimer(r) ==
  /\ server.phase = "listening"
  /\ Waiting(req[r])
  /\ ~req[r].closed
  /\ ~req[r].fin
  /\ req' = [req EXCEPT ![r] = [@ EXCEPT !.closed = TRUE]]
  /\ UNCHANGED <<server, API_KEY, sessions, issued, cleared, hits, files, page>>

\* variant: a request whose connection closes gives back the hits it made
\* (the limiters' skipFailedRequests)
close_SkipFailed(r) ==
  /\ server.phase = "listening"
  /\ Waiting(req[r])
  /\ ~req[r].closed
  /\ ~req[r].fin
  /\ req' = [req EXCEPT ![r] =
               [@ EXCEPT !.closed = TRUE,
                         !.timer = IF @ = "armed" THEN "cleared" ELSE @,
                         !.left = 0]]
  /\ hits' = [t \in Tiers |->
               IF t \in DOMAIN req[r].seen /\ hits[t][req[r].client].count > 0
               THEN [hits[t] EXCEPT ![req[r].client].count = @ - 1]
               ELSE hits[t]]
  /\ UNCHANGED <<server, API_KEY, sessions, issued, cleared, files, page>>

\* req 'close' (timeout.ts:64-66): the client goes away while the request
\* waits for its body or for the disk, clearTimeout
close(r) ==
  /\ server.phase = "listening"
  /\ Waiting(req[r])
  /\ ~req[r].closed
  /\ ~req[r].fin
  /\ req' = [req EXCEPT ![r] =
               [@ EXCEPT !.closed = TRUE,
                         !.timer = IF @ = "armed" THEN "cleared" ELSE @,
                         !.left = 0]]
  /\ UNCHANGED <<server, API_KEY, sessions, issued, cleared, hits, files, page>>

\* res 'error' (timeout.ts:69-71): writing the response fails, clearTimeout
resError(r) ==
  /\ server.phase = "listening"
  /\ req[r].sent
  /\ ~req[r].fin
  /\ ~req[r].closed
  /\ req' = [req EXCEPT ![r] =
               [@ EXCEPT !.closed = TRUE,
                         !.timer = IF @ = "armed" THEN "cleared" ELSE @,
                         !.left = 0]]
  /\ UNCHANGED <<server, API_KEY, sessions, issued, cleared, hits, files, page>>

\* the pipeline has ended and the response is out or the connection is
\* gone: the request is over
release(r) ==
  /\ server.phase = "listening"
  /\ req[r].pc = "Ended"
  /\ req[r].fin \/ req[r].closed
  /\ req' = [req EXCEPT ![r] = Blank]
  /\ UNCHANGED <<server, API_KEY, sessions, issued, cleared, hits, files, page>>

\* a request is inside a synchronous run of middleware, which takes no time
\* on the scale of the clock
Running(q) == q.pc # "Idle" /\ ~Waiting(q)

\* one tick on the timer of a request
tickTimer(q) ==
  IF q.timer = "armed" /\ q.left > 0 THEN [q EXCEPT !.left = @ - 1] ELSE q

\* time passes while every request in flight waits for the network or the disk
Tick ==
  /\ server.phase = "listening"
  /\ \A r \in Reqs : ~Running(req[r])
  /\ sessions' = ageAll(sessions)
  /\ issued' = ageAll(issued)
  /\ hits' = [t \in Tiers |-> expire(hits[t])]
  /\ req' = [r \in Reqs |-> tickTimer(req[r])]
  /\ UNCHANGED <<server, API_KEY, cleared, files, page>>

Next ==
  \/ \E r \in Reqs :
       \/ Receive(r)
       \/ requestTimeout(r)
       \/ requestLogger(r)
       \/ globalLimiter(r)
       \/ validateContentType(r)
       \/ jsonParser(r)
       \/ requireAuth(r)
       \/ skipAuth(r)
       \/ sessionLimiter(r)
       \/ writeLimiter(r)
       \/ sessionHandler(r)
       \/ validateBody(r)
       \/ handlerBegin(r)
       \/ writeEnd(r)
       \/ readEnd(r)
       \/ healthHandler(r)
       \/ notFoundHandler(r)
       \/ timeoutFire(r)
       \/ finish(r)
       \/ close(r)
       \/ resError(r)
       \/ release(r)
  \/ Tick

Spec == Init /\ [][Next]_vars


(***************************************************************************)
(* The session store on its own: the public methods of SessionManager      *)
(* called in any order while time passes.                                  *)
(***************************************************************************)
\* sessionManager.generateSession()
storeIssue ==
  /\ HasFreshToken
  /\ sessions' = generateSession(sessions, freshToken)
  /\ issued' = issue(freshToken)
  /\ cleared' = cleared \ {freshToken}
  /\ UNCHANGED <<server, API_KEY, hits, files, req, page>>

\* sessionManager.validateSession(tk)
storeValidate(tk) ==
  /\ sessions' = validateSessionStore(sessions, tk)
  /\ UNCHANGED <<server, API_KEY, issued, cleared, hits, files, req, page>>

\* sessionManager.clearAll()
storeReset ==
  /\ sessions' = clearAll(sessions)
  /\ cleared' = cleared \cup DOMAIN sessions
  /\ UNCHANGED <<server, API_KEY, issued, hits, files, req, page>>

NextStore ==
  \/ storeIssue
  \/ \E tk \in {ForgedToken} \cup Tokens : storeValidate(tk)
  \/ storeReset
  \/ Tick

SpecStore == Init /\ [][NextStore]_vars


(***************************************************************************)
(* Properties.                                                             *)
(***************************************************************************)
Range(s) == {s[i] : i \in 1..Len(s)}

\* C1: no data file is written for a request unless the request is a
\* mutating one and, when requireAuth read its headers, its X-Session-Token
\* was the key of an unexpired entry of the session store or a key was
\* configured and its X-API-Key equalled it.
C1_WriteOnlyAfterAuth ==
  \A r \in Reqs :
    req[r].wrote =>
      /\ Mutating(req[r].method)
      /\ req[r].tokenIs = "valid" \/ req[r].keyIs = "right"

\* a file was written for a request admitted by its session token alone
C1_Witness ==
  \E r \in Reqs :
    req[r].wrote /\ req[r].tokenIs = "valid" /\ req[r].keyIs # "right"

\* C2: as long as clearAll was not called since a token was issued,
\* validateSession accepts it exactly while no more than
\* SESSION_DURATION_MS has passed since generateSession returned it, and the
\* createdAt of its entry still is the time of issue, however often the
\* token was validated.
C2_TokenLifetime ==
  \A tk \in DOMAIN issued :
    tk \notin cleared =>
      /\ validateSession(sessions, tk) = (issued[tk] <= SESSION_DURATION_MS)
      /\ tk \in DOMAIN sessions => sessions[tk] = issued[tk]

\* a token at the last instant of its lifetime is still accepted
C2_Witness ==
  \E tk \in DOMAIN issued :
    /\ tk \notin cleared
    /\ issued[tk] = SESSION_DURATION_MS
    /\ validateSession(sessions, tk)

\* C3 as stated: with no key configured, a POST /api/auth/session that
\* carries neither a session token nor an API key is not turned away by the
\* authentication gate.
C3_SessionWithoutCredentials ==
  \A r \in Reqs :
    ( /\ API_KEY = NoKey
      /\ IsSessionRoute(req[r])
      /\ req[r].tokenIs = "none"
      /\ req[r].keyIs = "none" )
    => req[r].auth # "deny"

\* C4 as stated: with no key configured, a POST to a mutation route without
\* a session token, with an acceptable content type and not turned away by a
\* rate limiter, is answered 401.  (tokenIs is "-" for a request answered
\* before its headers were read, whatever they hold.)
C4_AlwaysUnauthorized ==
  \A r \in Reqs :
    ( /\ API_KEY = NoKey
      /\ IsWriteRoute(req[r])
      /\ req[r].tokenIs \in {"-", "none"}
      /\ req[r].content \in {"none", "json"}
      /\ req[r].sent
      /\ req[r].sentBy \notin {"globalLimiter", "writeLimiter"} )
    => req[r].status = 401

\* C4, amended: with no key configured, a POST to a mutation route without
\* a session token that reaches the authentication gate (its body, if any,
\* has arrived and parsed) is stopped there, its handler does not run and no
\* file is written; it is answered 401 by requireAuth unless the timeout
\* guard has answered it before.
C4_UnauthorizedAtGate ==
  \A r \in Reqs :
    ( /\ API_KEY = NoKey
      /\ IsWriteRoute(req[r])
      /\ req[r].tokenIs = "none" )
    => /\ req[r].auth = "deny"
       /\ req[r].pc = "Ended"
       /\ "Handler" \notin Range(req[r].stages)
       /\ ~req[r].wrote
       /\ req[r].sentBy # "requestTimeout"
            => req[r].status = 401 /\ req[r].sentBy = "requireAuth"

\* such a request, answered 401
C4_Witness ==
  \E r \in Reqs :
    /\ API_KEY = NoKey
    /\ IsWriteRoute(req[r])
    /\ req[r].tokenIs = "none"
    /\ req[r].status = 401
    /\ req[r].body \in Payloads

\* C5 as stated: with no key configured, a mutating request without a valid
\* session token that presents an X-API-Key is answered 503.
C5_Unconfigured503 ==
  \A r \in Reqs :
    ( /\ API_KEY = NoKey
      /\ Mutating(req[r].method)
      /\ req[r].tokenIs \in {"none", "invalid"}
      /\ req[r].keyIs = "wrong"
      /\ req[r].sentBy = "requireAuth" )
    => req[r].status = 503


\* the budget of a tier and the limiter that guards it
Budget(t) ==
  CASE t = "global" -> GLOBAL_MAX
    [] t = "write" -> WRITE_MAX
    [] t = "session" -> SESSION_MAX
LimiterOf(t) ==
  CASE t = "global" -> "globalLimiter"
    [] t = "write" -> "writeLimiter"
    [] t = "session" -> "sessionLimiter"

C7_AllTiersEvaluated ==
  \A r \in Reqs :
    (IsSessionRoute(req[r]) /\ "Handler" \in Range(req[r].stages))
      => DOMAIN req[r].seen = Tiers

\* C8: a request that is beyond the global maximum in its client's global
\* window is answered 429 by the global limiter, whatever the client's count
\* in the write tier, and no other tier is consulted for it; a GET request
\* is counted in the global tier only and is answered 429 only when it is
\* beyond the global maximum.
C8_SeparateCounters ==
  \A r \in Reqs :
    /\ ("global" \in DOMAIN req[r].seen /\ req[r].seen["global"] > GLOBAL_MAX)
         => /\ req[r].pc = "Ended"
            /\ req[r].status = 429
            /\ req[r].sentBy = "globalLimiter"
            /\ DOMAIN req[r].seen = {"global"}
    /\ req[r].method = "GET"
         => /\ DOMAIN req[r].seen \subseteq {"global"}
            /\ req[r].status = 429
                 => ("global" \in DOMAIN req[r].seen /\ req[r].seen["global"] > GLOBAL_MAX)

\* a write request answered 429 by the global limiter while its client is
\* below the maximum of the write tier
C8_Witness ==
  \E r \in Reqs :
    /\ IsWriteRoute(req[r])
    /\ req[r].status = 429
    /\ req[r].sentBy = "globalLimiter"
    /\ hits["write"][req[r].client].count < WRITE_MAX

RECURSIVE IsSubseq(_, _)
\* s is t with some elements left out
IsSubseq(s, t) ==
  IF s = <<>> THEN TRUE
  ELSE IF t = <<>> THEN FALSE
  ELSE IF Head(s) = Head(t) THEN IsSubseq(Tail(s), Tail(t))
  ELSE IsSubseq(s, Tail(t))

Count(s, x) == Cardinality({i \in 1..Len(s) : s[i] = x})

IsChainStage(x) == x \notin {"ResponseSent", "TimedOut", "TimeoutDisarmed"}
NotTimedOut(x) == x # "TimedOut"

\* the order of the specification's state machine
DeclaredOrder ==
  <<"Received", "TimeoutArmed", "Logged", "RateChecked", "ContentTypeChecked",
    "AuthChecked", "SchemaValidated", "Handler", "ResponseSent",
    "TimeoutDisarmed">>

\* the order of the chain, with the rate check of the route's own tier
ChainOrder ==
  <<"Received", "TimeoutArmed", "Logged", "RateChecked", "ContentTypeChecked",
    "AuthChecked", "RateChecked", "SchemaValidated", "Handler">>

\* C9 as stated: the stages a request goes through are in the declared
\* order, each at most once, with one rate check, before the content-type
\* and authentication checks.
C9_DeclaredOrder ==
  \A r \in Reqs :
    IsSubseq(SelectSeq(req[r].stages, NotTimedOut), DeclaredOrder)

\* C9, amended: the stages of the chain run in the order Received,
\* TimeoutArmed, Logged, RateChecked (global tier), ContentTypeChecked,
\* AuthChecked, RateChecked (the write or session tier of the route),
\* SchemaValidated, Handler, each at most once; a request is answered at
\* most once, by a stage or by the timeout guard; the timeout is disarmed
\* at most once and only after the answer; and no stage runs after a stage
\* or handler has answered.
C9_ChainOrder ==
  \A r \in Reqs :
    LET s == req[r].stages
    IN /\ IsSubseq(SelectSeq(s, IsChainStage), ChainOrder)
       /\ Count(s, "ResponseSent") + Count(s, "TimedOut") <= 1
       /\ Count(s, "TimeoutDisarmed") <= 1
       /\ \A i \in 1..Len(s) :
            /\ s[i] = "TimeoutDisarmed"
                 => \E j \in 1..(i - 1) : s[j] \in {"ResponseSent", "TimedOut"}
            /\ s[i] = "ResponseSent"
                 => \A j \in (i + 1)..Len(s) : s[j] = "TimeoutDisarmed"

\* a write that went through every stage
C9_Witness ==
  \E r \in Reqs :
    req[r].stages =
      <<"Received", "TimeoutArmed", "Logged", "RateChecked", "ContentTypeChecked",
        "AuthChecked", "RateChecked", "SchemaValidated", "Handler", "ResponseSent",
        "TimeoutDisarmed">>

\* a gating stage has answered the request with an error status
GatingError(q) ==
  /\ q.sent
  /\ q.sentBy \in {"globalLimiter", "writeLimiter", "sessionLimiter",
                   "validateContentType", "requireAuth", "validateBody"}

\* what holds of a request in any case once a gating stage has answered it
Stopped(q) ==
  /\ q.status \in {400, 401, 415, 429}
  /\ q.pc = "Ended"
  /\ "Handler" \notin Range(q.stages)
  /\ \A i \in 1..Len(q.stages) :
       q.stages[i] = "ResponseSent"
         => \A j \in (i + 1)..Len(q.stages) : q.stages[j] = "TimeoutDisarmed"
  /\ ~q.wrote
  /\ q.issued = NoToken

\* C10 as stated: once a gating stage has answered a request with an error
\* status, no later stage and no handler runs for it, no file was written
\* for it and the session store is as it was before the request.
C10_NothingChanged ==
  \A r \in Reqs :
    GatingError(req[r]) => Stopped(req[r]) /\ ~req[r].dropped

\* C10, amended: once a gating stage has answered a request with an error
\* status, no later stage and no handler runs for it and no file was written
\* and no session issued for it; the session store is as it was before the
\* request except that requireAuth has deleted the entry of the token the
\* request presented if that entry had expired.
C10_ShortCircuit ==
  \A r \in Reqs :
    GatingError(req[r]) =>
      /\ Stopped(req[r])
      /\ req[r].dropped => req[r].tokenIs = "invalid"

\* a request turned away by requireAuth whose expired session was deleted
C10_Witness ==
  \E r \in Reqs :
    GatingError(req[r]) /\ req[r].sentBy = "requireAuth" /\ req[r].dropped


(***************************************************************************)
(* Scheduling.  Node runs a synchronous middleware to its end, lets time   *)
(* pass and runs a timer callback that is due; the arrival of a body, the  *)
(* completion of a file operation and the flushing of a response are not   *)
(* in its hands.                                                           *)
(***************************************************************************)
\* the synchronous stages of the chain
SyncStep(r) ==
  \/ requestTimeout(r)
  \/ requestLogger(r)
  \/ globalLimiter(r)
  \/ validateContentType(r)
  \/ req[r].content # "json" /\ jsonParser(r)
  \/ requireAuth(r)
  \/ skipAuth(r)
  \/ sessionLimiter(r)
  \/ writeLimiter(r)
  \/ sessionHandler(r)
  \/ validateBody(r)
  \/ handlerBegin(r)
  \/ healthHandler(r)
  \/ notFoundHandler(r)

Fairness ==
  /\ WF_vars(Tick)
  /\ \A r \in Reqs : WF_vars(SyncStep(r)) /\ WF_vars(timeoutFire(r))

\* a client that sends one request in a global window: no tier turns it
\* away
ReceiveSpaced(r) ==
  /\ \A c \in Clients : hits["global"][c].count = 0
  /\ Receive(r)

NextLive ==
  \/ \E r \in Reqs :
       \/ ReceiveSpaced(r)
       \/ SyncStep(r)
       \/ jsonParser(r)
       \/ writeEnd(r)
       \/ readEnd(r)
       \/ timeoutFire(r)
       \/ finish(r)
       \/ close(r)
       \/ resError(r)
       \/ release(r)
  \/ Tick

SpecLive == Init /\ [][NextLive]_vars /\ Fairness

C12_StopsAfterTimeout ==
  [][ \A r \in Reqs :
        (req[r].timer = "fired" \/ req[r].closed) /\ req'[r] # Blank =>
          /\ files' = files
          /\ req'[r].wrote = req[r].wrote
          /\ req'[r].pc = "Handler" => req[r].pc = "Handler"
          /\ req[r].pc = "Handler" => req'[r].pc = "Handler"
    ]_vars


\* C13: once the response of a request has finished, its connection has
\* closed or its response has failed, the deadline timer of the request is
\* not armed, and from then on the timer does not fire and the timeout
\* guard sends no 408 for the request.
C13_TimerCancelled ==
  /\ [](\A r \in Reqs : (req[r].fin \/ req[r].closed) => req[r].timer # "armed")
  /\ [][ \A r \in Reqs :
           (req[r].fin \/ req[r].closed) =>
             /\ req'[r].timer = "fired" => req[r].timer = "fired"
             /\ req'[r].sentBy = "requestTimeout" => req[r].sentBy = "requestTimeout"
     ]_vars

\* a connection closed before any response, its timer cleared before the
\* deadline, and the handler still at work
C13_Witness ==
  \E r \in Reqs :
    /\ req[r].closed
    /\ ~req[r].sent
    /\ req[r].timer = "cleared"
    /\ req[r].pc = "Handler"


(***************************************************************************)
(* The response logger on its own: a response of any status class to a     *)
(* request of any method passes through the res.send override.             *)
(***************************************************************************)
LogMethods == {"GET", "HEAD", "OPTIONS", "POST", "PUT", "PATCH", "DELETE"}
StatusCodes == 100..599

\* res.send of the override (requestLogger.ts:66-95)
logSend(r) ==
  \E m \in LogMethods, st \in StatusCodes :
    /\ req[r].pc = "Idle"
    /\ req' = [req EXCEPT ![r] =
                 [Blank EXCEPT !.pc = "Ended", !.method = m, !.sent = TRUE,
                               !.status = st, !.sentBy = "handler",
                               !.level = logLevel(m, st)]]
    /\ UNCHANGED <<server, API_KEY, sessions, issued, cleared, hits, files, page>>

NextLog == \E r \in Reqs : logSend(r) \/ finish(r) \/ release(r)

SpecLog == Init /\ [][NextLog]_vars

\* C14: a response is logged at AUDIT exactly when the method is POST, PUT,
\* PATCH or DELETE and the status is 2xx; otherwise at WARN exactly when the
\* status is 4xx or 5xx; otherwise at INFO.
C14_LogLevel ==
  \A r \in Reqs :
    req[r].sent =>
      LET audit == /\ req[r].method \in {"POST", "PUT", "PATCH", "DELETE"}
                   /\ req[r].status \in 200..299
          warn == ~audit /\ req[r].status \in 400..599
      IN  /\ (req[r].level = "AUDIT") <=> audit
          /\ (req[r].level = "WARN") <=> warn
          /\ (req[r].level = "INFO") <=> (~audit /\ ~warn)

\* a successful DELETE logged at AUDIT
C14_Witness ==
  \E r \in Reqs :
    /\ req[r].sent
    /\ req[r].method = "DELETE"
    /\ req[r].status = 204
    /\ req[r].level = "AUDIT"


\* C15 as stated: a request that has been answered has a request id, and
\* every log line written for a request carries the id of that request.
C15_CorrelatedLogs ==
  \A r \in Reqs :
    /\ req[r].sent => req[r].requestId # "-"
    /\ \A e \in req[r].log : e[2] # "-" /\ e[2] = req[r].requestId


(***************************************************************************)
(* validateFilePath on its own: called with LOCALES_PATH as the base and   *)
(* any candidate path made of a beginning and a few more pieces.           *)
(***************************************************************************)
MaxItems == 4

PathItems ==
  {<<Sep, "..">>, <<Sep, "etc">>, <<Sep, "passwd">>, <<Sep, "en", ".json">>,
   <<Sep, "locales">>, <<"Extra">>, <<Sep>>}

PathPrefixes ==
  {<<>>, LOCALES_PATH, SubSeq(LOCALES_PATH, 1, Len(LOCALES_PATH) - 2)}

RECURSIVE Suffixes(_)
Suffixes(n) ==
  IF n = 0 THEN {<<>>}
  ELSE Suffixes(n - 1) \cup {s \o i : s \in Suffixes(n - 1), i \in PathItems}

Candidates == {p \o s : p \in PathPrefixes, s \in Suffixes(MaxItems)}

InitPath ==
  /\ server = Process("listening", GoodDisk)
  /\ API_KEY = NoKey
  /\ sessions = EmptyStore
  /\ issued = EmptyStore
  /\ cleared = {}
  /\ hits = [t \in Tiers |-> [c \in Clients |-> NoHits]]
  /\ files = [f \in Files |-> "orig"]
  /\ page = BlankPage
  /\ req \in [Reqs -> {[Blank EXCEPT !.path = p] : p \in Candidates}]

\* a call validateFilePath(filePath, LOCALES_PATH)
checkPath(r) ==
  /\ req[r].inside = "-"
  /\ req' = [req EXCEPT ![r] =
               [@ EXCEPT !.inside = IF validateFilePath(req[r].path, LOCALES_PATH)
                                    THEN "yes" ELSE "no"]]
  /\ UNCHANGED <<server, API_KEY, sessions, issued, cleared, hits, files, page>>

NextPath == \E r \in Reqs : checkPath(r)

SpecPath == InitPath /\ [][NextPath]_vars

\* the names of a path that is already absolute and normal
Names(p) == splitPath(p, <<>>, <<>>)

EnJson == LOCALES_PATH \o <<Sep, "en", ".json">>
EtcPasswd == LOCALES_PATH \o <<Sep, "..", Sep, "..", Sep, "etc", Sep, "passwd">>
ExtraEnJson == LOCALES_PATH \o <<"Extra", Sep, "en", ".json">>

\* C16: validateFilePath answers true exactly when the resolved, normalized
\* candidate is the root or begins with the root followed by the separator,
\* which is exactly when the names of the root are the first names of the
\* candidate; <root>/en.json is inside, <root>/../../etc/passwd and
\* <root>Extra/en.json are not.
C16_Containment ==
  \A r \in Reqs :
    req[r].inside # "-" =>
      LET file == normalize(req[r].path)
          root == normalize(LOCALES_PATH)
          yes == req[r].inside = "yes"
      IN  /\ yes <=> (file = root \/ startsWith(file, root \o <<Sep>>))
          /\ yes <=> startsWith(Names(file), Names(root))
          /\ req[r].path = EnJson => yes
          /\ req[r].path \in {EtcPasswd, ExtraEnJson} => ~yes

\* the path beside the root whose name begins like the root's, refused
C16_Witness ==
  \E r \in Reqs : req[r].path = ExtraEnJson /\ req[r].inside = "no"


\* a locale request whose handler ran its checks and found the code outside
\* the list or the path outside LOCALES_PATH
FailedLocaleChecks(q) ==
  /\ q.route = "locale"
  /\ q.code \notin validCodes \/ q.inside # "yes"
  /\ \E i \in DOMAIN q.stages : q.stages[i] = "Handler"

\* a locale request with a file operation begun or done
TouchesLocaleFile(q) == q.route = "locale" /\ (q.pc = "Handler" \/ q.wrote)

endsWith(str, suffix) ==
  /\ Len(str) >= Len(suffix)
  /\ SubSeq(str, Len(str) - Len(suffix) + 1, Len(str)) = suffix

\* whether validateBasePaths(CORE_PATH, COLORS_PATH, LOCALES_PATH) returns
\* rather than throws (pathValidation.ts:26-50)
validateBasePaths(disk) ==
  /\ endsWith(normalize(CORE_PATH), <<"xivdyetools-core">>)
  /\ disk.colorsAccess
  /\ disk.localesAccess

\* pathValidation.ts:26-43: the name of the core path, then
\* fs.access(colorsPath, R_OK | W_OK)
accessColors ==
  /\ server.phase = "starting"
  /\ server' = [server EXCEPT !.phase =
                  IF /\ endsWith(normalize(CORE_PATH), <<"xivdyetools-core">>)
                     /\ server.disk.colorsAccess
                  THEN "colorsChecked" ELSE "failed"]
  /\ UNCHANGED <<API_KEY, sessions, issued, cleared, hits, files, req, page>>

\* pathValidation.ts:45-52: fs.access(localesPath, R_OK | W_OK)
accessLocales ==
  /\ server.phase = "colorsChecked"
  /\ server' = [server EXCEPT !.phase =
                  IF server.disk.localesAccess THEN "validated" ELSE "failed"]
  /\ UNCHANGED <<API_KEY, sessions, issued, cleared, hits, files, req, page>>

\* .then: app.listen(PORT, '127.0.0.1') (api.ts:483-495)
listen ==
  /\ server.phase = "validated"
  /\ server' = [server EXCEPT !.phase = "listening"]
  /\ UNCHANGED <<API_KEY, sessions, issued, cleared, hits, files, req, page>>

\* variant: the rejection is logged and the server listens all the same
exitFailure_Listen ==
  /\ server.phase = "failed"
  /\ server' = [server EXCEPT !.phase = "listening"]
  /\ UNCHANGED <<API_KEY, sessions, issued, cleared, hits, files, req, page>>

\* .catch: process.exit(1) (api.ts:497-500)
exitFailure ==
  /\ server.phase = "failed"
  /\ server' = [server EXCEPT !.phase = "exited", !.exit = "1"]
  /\ UNCHANGED <<API_KEY, sessions, issued, cleared, hits, files, req, page>>

InitStartup ==
  /\ server \in {Process("starting", d) : d \in Disks}
  /\ API_KEY \in {NoKey, "k3y"}
  /\ sessions = EmptyStore
  /\ issued = EmptyStore
  /\ cleared = {}
  /\ hits = [t \in Tiers |-> [c \in Clients |-> NoHits]]
  /\ files = [f \in Files |-> "orig"]
  /\ page = BlankPage
  /\ req = [r \in Reqs |-> Blank]

StartupStep == accessColors \/ accessLocales \/ listen \/ exitFailure

NextStartup ==
  \/ accessColors
  \/ accessLocales
  \/ listen
  \/ exitFailure
  \/ \E r \in Reqs : Receive(r)

\* the promise chain of the startup runs to its end
SpecStartup == InitStartup /\ [][NextStartup]_vars /\ WF_vars(StartupStep)

\* C18: a request is received only by a process that listens, and a process
\* listens only when validateBasePaths has returned; when validateBasePaths
\* throws, the process comes to exit with status 1, and it never listens
\* and never receives a request.
C18_ServeOnlyAfterValidation ==
  /\ [](\A r \in Reqs : req[r].pc # "Idle" => server.phase = "listening")
  /\ [](server.phase = "listening" => validateBasePaths(server.disk))
  /\ (~validateBasePaths(server.disk))
       ~> (server.phase = "exited" /\ server.exit = "1")
  /\ [](server.phase = "exited" =>
          /\ ~validateBasePaths(server.disk)
          /\ \A r \in Reqs : req[r].pc = "Idle")

\* a request received by a process started on a disk that passed
C18_Witness ==
  \E r \in Reqs :
    /\ req[r].pc = "Received"
    /\ server.phase = "listening"
    /\ validateBasePaths(server.disk)

\* C19 as stated: startup validation succeeds only if the root directory
\* exists and is readable and writable, the colors file is accessible and
\* the locales directory is accessible, and fails whenever one of these
\* does not hold.
C19_ValidationChecksRoot ==
  LET holds == /\ server.disk.rootExists
               /\ server.disk.rootReadable
               /\ server.disk.rootWritable
               /\ server.disk.colorsAccess
               /\ server.disk.localesAccess
  IN /\ server.phase \in {"validated", "listening"} => holds
     /\ server.phase \in {"failed", "exited"} => ~holds


(***************************************************************************)
(* The answer to a body that fails its schema, on its own: any list of     *)
(* schema errors goes through the catch branch of validateBody.            *)
(***************************************************************************)
MaxIssues == 2

\* where a value can stand: in a field, under a key of a record, at the top
IssuePaths == {<<"itemID">>, <<"dyeNames", "5729">>, <<>>}
\* the values that can stand there and be rejected
RejectedValues == {"not-a-number", "<script>"}

\* the required fields a body can leave out (itemID of DyeSchema, dyeNames of
\* LocaleDataSchema)
RequiredPaths == {<<"itemID">>, <<"dyeNames">>}

\* what zod reports for a required field that the body leaves out: a failure
\* of kind invalid_type whose received type is undefined
requiredIssue(path) ==
  [path |-> path, code |-> "invalid_type", received |-> "undefined",
   message |-> <<"Required">>]

Issues ==
  {Issue(p, c, v) : p \in IssuePaths, c \in ZodCodes, v \in RejectedValues}
    \cup {requiredIssue(p) : p \in RequiredPaths}

IssueLists ==
  UNION {[1..n -> Issues] : n \in 1..MaxIssues}

InitSanitize ==
  /\ server = Process("listening", GoodDisk)
  /\ API_KEY = NoKey
  /\ sessions = EmptyStore
  /\ issued = EmptyStore
  /\ cleared = {}
  /\ hits = [t \in Tiers |-> [c \in Clients |-> NoHits]]
  /\ files = [f \in Files |-> "orig"]
  /\ page = BlankPage
  /\ req \in [Reqs -> {[Blank EXCEPT !.errors = e] : e \in IssueLists}]

\* schema.parse has thrown a ZodError with these errors; the catch branch
rejectBody(r) ==
  /\ ~req[r].sent
  /\ req' = [req EXCEPT ![r] = ValidationFailed(req[r], req[r].errors)]
  /\ UNCHANGED <<server, API_KEY, sessions, issued, cleared, hits, files, page>>

NextSanitize == \E r \in Reqs : rejectBody(r)

SpecSanitize == InitSanitize /\ [][NextSanitize]_vars

\* two lists of schema errors at the same paths with the same kinds
SameFailure(a, b) ==
  /\ Len(a) = Len(b)
  /\ \A i \in DOMAIN a : a[i].path = b[i].path /\ a[i].code = b[i].code

\* a value is a piece of a string
Occurs(v, str) == \E i \in DOMAIN str : str[i] = v

\* C20: a body that fails its schema is answered 400 with details that any
\* other body failing at the same paths in the same ways would be given as
\* well, whatever values were rejected, and no field, code or message of the
\* details holds a rejected value; for itemID "not-a-number" of the wrong
\* type the details are field itemID with code INVALID_TYPE.
C20_ValuesNotDisclosed ==
  \A r \in Reqs :
    req[r].sentBy = "validateBody" =>
      /\ req[r].status = 400
      /\ \A other \in IssueLists :
           SameFailure(other, req[r].errors)
             => sanitizeZodError(other) = req[r].details
      /\ \A i \in DOMAIN req[r].errors, j \in DOMAIN req[r].details :
           LET v == req[r].errors[i].received
               d == req[r].details[j]
           IN ~Occurs(v, d.field) /\ d.code # v /\ ~Occurs(v, d.message)
      /\ req[r].errors = <<Issue(<<"itemID">>, "invalid_type", "not-a-number")>>
           => /\ Len(req[r].details) = 1
              /\ req[r].details[1].field = <<"itemID">>
              /\ req[r].details[1].code = "INVALID_TYPE"

\* the answer to a record entry of the wrong type whose value was "<script>"
C20_Witness ==
  \E r \in Reqs :
    /\ req[r].sentBy = "validateBody"
    /\ req[r].errors = <<Issue(<<"dyeNames", "5729">>, "invalid_type", "<script>")>>
    /\ req[r].details =
         <<[field |-> <<"dyeNames", ".", "5729">>, code |-> "INVALID_TYPE",
            message |-> <<"Field '", "dyeNames", ".", "5729", "' has invalid type">>]>>


\* the keys of the model's record-typed fields (dyeNames: z.record(z.string(),
\* z.string()), schemas.ts:81): the caller chooses them
CallerKeys == {"5729"}

\* C21 as stated: no string chosen by the caller, neither a rejected value nor
\* a key of a record-typed field, is a piece of any field path or message of
\* the details sent for a rejected body.
C21_NoCallerString ==
  \A r \in Reqs :
    req[r].sentBy = "validateBody" =>
      \A j \in DOMAIN req[r].details, v \in RejectedValues \cup CallerKeys :
        /\ ~Occurs(v, req[r].details[j].field)
        /\ ~Occurs(v, req[r].details[j].message)


\* every kind of failure zod reports (ZodIssueCode)
AllZodCodes ==
  ZodCodes \cup
  {"invalid_union", "invalid_union_discriminator", "unrecognized_keys",
   "invalid_arguments", "invalid_return_type", "invalid_date",
   "invalid_intersection_types", "not_multiple_of", "not_finite"}

\* the kinds the switch of mapZodErrorCode names
RecognisedZodCodes ==
  {"invalid_type", "invalid_string", "invalid_literal", "too_small", "too_big",
   "invalid_enum_value"}

\* the closed set of codes a caller may be given
ClientCodes ==
  {"INVALID_TYPE", "INVALID_FORMAT", "REQUIRED_FIELD", "TOO_SMALL", "TOO_BIG",
   "INVALID_ENUM", "UNKNOWN"}

\* C22: every failure of a rejected body is given exactly one code, that
\* code is one of the seven client codes, a kind the mapping does not name is
\* given UNKNOWN, several kinds share a code, and the same holds of the
\* mapping for every kind of failure there is.
C22_ClosedCodes ==
  /\ \A r \in Reqs :
       req[r].sentBy = "validateBody" =>
         /\ DOMAIN req[r].details = DOMAIN req[r].errors
         /\ \A j \in DOMAIN req[r].details :
              /\ req[r].details[j].code \in ClientCodes
              /\ req[r].errors[j].code \notin RecognisedZodCodes
                   => req[r].details[j].code = "UNKNOWN"
  /\ \A k \in AllZodCodes :
       /\ mapZodErrorCode(k) \in ClientCodes
       /\ k \notin RecognisedZodCodes => mapZodErrorCode(k) = "UNKNOWN"
  /\ \E k1, k2 \in AllZodCodes :
       k1 # k2 /\ mapZodErrorCode(k1) = mapZodErrorCode(k2)

\* a body with a failure of a kind the mapping does not name and one of a
\* kind that shares its code with another
C22_Witness ==
  \E r \in Reqs :
    /\ req[r].sentBy = "validateBody"
    /\ Len(req[r].errors) = 2
    /\ req[r].errors[1].code = "custom"
    /\ req[r].details[1].code = "UNKNOWN"
    /\ req[r].errors[2].code = "invalid_literal"
    /\ req[r].details[2].code = "INVALID_FORMAT"


\* C23 as stated: a required field the body leaves out is reported with the
\* code REQUIRED_FIELD and the message "Field '<path>' is required".
C23_MissingIsRequired ==
  \A r \in Reqs :
    req[r].sentBy = "validateBody" =>
      \A j \in DOMAIN req[r].errors :
        req[r].errors[j].received = "undefined" =>
          /\ req[r].details[j].code = "REQUIRED_FIELD"
          /\ req[r].details[j].message =
               <<"Field '">> \o req[r].details[j].field \o <<"' is required">>


\* C24 as stated: no error of a single request ends the process or leaves
\* the pipeline unhandled: whatever requests were answered 401, 429, 415,
\* 400, 404, 408 or 500, and also when a handler finishes its file operation
\* after the timeout guard has answered 408 and then tries to respond, the
\* server is still serving.
C24_NoErrorIsFatal ==
  /\ server.phase = "listening"
  /\ server.exit = "-"


\* an exception leaves a stage of request r in this step: express.json
\* fails on the body, or a stage or handler ends the chain by answering
\* although a response has started
Thrown(r) ==
  \/ req[r].body # "malformed" /\ req'[r].body = "malformed"
  \/ req[r].sent /\ req[r].pc \notin {"Idle", "Ended"} /\ req'[r].pc = "Ended"

InternalServerError == Failure(<<"Internal server error">>)

\* C25: an exception that no stage handles is answered by the catch-all with
\* status 500 and the object { success: false, error: "Internal server
\* error" } and logged with the id of the request, when no response has
\* started; when one has started nothing more is sent; whatever the
\* catch-all sends is that generic object, never the error's message or stack.
C25_CatchAll ==
  /\ [](\A r \in Reqs :
          req[r].sentBy = "globalErrorHandler" =>
            /\ req[r].status = 500
            /\ req[r].json = InternalServerError
            /\ <<"globalErrorHandler", req[r].requestId>> \in req[r].log)
  /\ [][ \A r \in Reqs :
           Thrown(r) =>
             IF req[r].sent
             THEN /\ req'[r].status = req[r].status
                  /\ req'[r].sentBy = req[r].sentBy
                  /\ req'[r].json = req[r].json
             ELSE /\ req'[r].sent
                  /\ req'[r].status = 500
                  /\ req'[r].sentBy = "globalErrorHandler"
                  /\ req'[r].json = InternalServerError
                  /\ <<"globalErrorHandler", req'[r].requestId>> \in req'[r].log
     ]_vars

\* a body that does not parse was answered by the catch-all, and a stage
\* that threw after the timeout answer left that answer as it was
C25_Witness ==
  \E r \in Reqs :
    \/ /\ req[r].body = "malformed"
       /\ req[r].sentBy = "globalErrorHandler"
       /\ req[r].status = 500
       /\ req[r].json = InternalServerError


\* C26 as stated: the object of every response whose status is not 2xx has
\* success false and an error text, and nothing else but, optionally,
\* details, which is then an array of objects { field, code, message }.
C26_Envelope ==
  \A r \in Reqs :
    (req[r].sent /\ req[r].status \notin 200..299) =>
      LET o == req[r].json
      IN /\ {"success", "error"} \subseteq o.keys
         /\ o.keys \subseteq {"success", "error", "details"}
         /\ o.success = "false"
         /\ o.error # <<>>
         /\ "details" \in o.keys =>
              /\ o.details.kind = "array"
              /\ \A i \in DOMAIN o.details.items :
                   DOMAIN o.details.items[i] = {"field", "code", "message"}


(***************************************************************************)
(* validateContentType on its own: a request of any method, with or        *)
(* without a body, with any Content-Type.                                  *)
(***************************************************************************)
ContentTypes ==
  {<<>>, <<"application/json">>, <<"application/json", "; charset=utf-8">>,
   <<"text/plain">>, <<"text/plain", "; note=", "application/json">>,
   <<"multipart/form-data">>}

\* a body of a declared length, a chunked body, or none
Transfers ==
  {<<"none", "absent">>, <<"none", "0">>, <<"length", "5">>,
   <<"chunked", "absent">>}

RequestHeaders ==
  {Headers(t[1], t[2], ct) : t \in Transfers, ct \in ContentTypes}

InitContent ==
  /\ server = Process("listening", GoodDisk)
  /\ API_KEY = NoKey
  /\ sessions = EmptyStore
  /\ issued = EmptyStore
  /\ cleared = {}
  /\ hits = [t \in Tiers |-> [c \in Clients |-> NoHits]]
  /\ files = [f \in Files |-> "orig"]
  /\ page = BlankPage
  /\ req \in [Reqs -> {[Blank EXCEPT !.pc = "RateChecked", !.method = m,
                                     !.headers = h] :
                         m \in LogMethods, h \in RequestHeaders}]

\* validateContentType on the request (part_002:31-72)
checkContent(r) ==
  /\ req[r].pc = "RateChecked"
  /\ req' = [req EXCEPT ![r] =
               LET q == Stage(@, "ContentTypeChecked", "ContentTypeChecked")
               IN IF unsupportedMediaType(q.method, q.headers)
                  THEN Respond(
                         Json(Log(q, "validateContentType", q.requestId),
                              FailureDetails(
                                <<"Unsupported Media Type">>,
                                TextDetails(
                                  <<"Content-Type must be application/json">>))),
                         415, "validateContentType")
                  ELSE q]
  /\ UNCHANGED <<server, API_KEY, sessions, issued, cleared, hits, files, page>>

NextContent == \E r \in Reqs : checkContent(r)

SpecContent == InitContent /\ [][NextContent]_vars

\* the media type of a Content-Type is application/json
IsJsonType(contentType) ==
  contentType # <<>> /\ contentType[1] = "application/json"

\* C27 as stated: once validateContentType has seen a request, a POST, PUT,
\* PATCH or DELETE that has a body and whose Content-Type is not
\* application/json has been answered 415, with no body parsed and no
\* credential looked at; a request of another method, and one without a
\* body, has not been answered 415.
C27_UnsupportedMedia ==
  \A r \in Reqs :
    req[r].pc \notin {"Idle", "RateChecked"} =>
      LET h == req[r].headers
          rejected == req[r].sent /\ req[r].status = 415
      IN /\ ( /\ Mutating(req[r].method)
              /\ h.transfer # "none"
              /\ ~IsJsonType(h.contentType) ) => rejected
         /\ (~Mutating(req[r].method) \/ h.transfer = "none") => ~rejected
         /\ rejected => req[r].body = "-" /\ req[r].auth = "-"


(***************************************************************************)
(* The authentication gate on its own: a request of any method that        *)
(* reaches it, with any session token and any key, against a store with    *)
(* a fresh, an old or an expired session.                                  *)
(***************************************************************************)
\* cors (api.ts:260-265) answers an OPTIONS request itself; every other
\* method reaches the gate
GateMethods == LogMethods \ {"OPTIONS"}

\* a store with any of the tokens, each new, at the end of its life, or
\* past it
AuthStores ==
  UNION {[S -> {0, SESSION_DURATION_MS, Old}] : S \in SUBSET Tokens}

InitAuth ==
  /\ server = Process("listening", GoodDisk)
  /\ API_KEY \in {NoKey, "k3y"}
  /\ sessions \in AuthStores
  /\ issued = sessions
  /\ cleared = {}
  /\ hits = [t \in Tiers |-> [c \in Clients |-> NoHits]]
  /\ files = [f \in Files |-> "orig"]
  /\ page = BlankPage
  /\ req \in [Reqs -> {[Blank EXCEPT !.pc = "BodyParsed", !.method = m,
                                     !.route = "colors"] :
                         m \in GateMethods}]

\* requireAuth on the request, whatever its X-API-Key
gateAny(r) == authGate(r, {NoKey, WideKey} \cup KeyValues)

NextAuth == \E r \in Reqs : gateAny(r)

SpecAuth == InitAuth /\ [][NextAuth]_vars

\* C28 as stated: the gate lets a request of a read-only method (GET, HEAD,
\* OPTIONS) through whatever credentials it carries or lacks.
C28_ReadOnlyPasses ==
  \A r \in Reqs :
    (req[r].method \in {"GET", "HEAD", "OPTIONS"} /\ req[r].auth # "-") =>
      /\ req[r].auth # "deny"
      /\ ~req[r].sent
      /\ req[r].pc = "AuthChecked"

C29_ResetEmpties ==
  /\ [](\A tk \in cleared :
          tk \notin DOMAIN sessions /\ ~validateSession(sessions, tk))
  /\ [][ (cleared' # cleared /\ issued' = issued) =>
           /\ sessions' = EmptyStore
           /\ \A tk \in DOMAIN issued : ~validateSession(sessions', tk)
     ]_vars

\* clearAll was called on a store with a session just issued and an older
\* one
C29_Witness ==
  /\ sessions = EmptyStore
  /\ \E t1, t2 \in cleared :
       /\ issued[t1] = 0
       /\ issued[t2] > 0
       /\ issued[t2] <= SESSION_DURATION_MS


\* the tokens and keys a request can bring to the gate
GateTokens == {NoToken, ForgedToken} \cup Tokens
GateKeys == {NoKey, WideKey} \cup KeyValues

\* C31: when the gate validates the token of a request, the store changes
\* only by losing the entry of that token, and only when the entry is there
\* and expired; for a token that is unknown or still valid the store stays
\* as it is; the entry of no other token is added, removed or modified; so
\* it is also when the request is then denied.
C31_ValidateFrame ==
  [][ \A r \in Reqs, tk \in GateTokens, k \in GateKeys :
        (authGateWith(r, tk, k) /\ req[r].method # "GET" /\ tk # NoToken) =>
          LET expired == tk \in DOMAIN sessions /\ isExpired(sessions[tk])
          IN /\ expired => DOMAIN sessions' = DOMAIN sessions \ {tk}
             /\ ~expired => sessions' = sessions
             /\ \A t \in (DOMAIN sessions \cup DOMAIN sessions') \ {tk} :
                  /\ t \in DOMAIN sessions
                  /\ t \in DOMAIN sessions'
                  /\ sessions'[t] = sessions[t]
    ]_vars

\* a request was denied after the gate removed its expired session, and
\* another expired session is still in the store
C31_Witness ==
  \E r \in Reqs :
    /\ req[r].dropped
    /\ req[r].auth = "deny"
    /\ \E t \in DOMAIN sessions : isExpired(sessions[t])


\* C32: right after generateSession the store holds the new token with
\* createdAt now, holds no expired entry, and still holds, unchanged, every
\* entry that was not expired before the call; the store then has no more
\* entries than tokens were issued within the last SESSION_DURATION_MS.
C32_IssueSweeps ==
  [][ storeIssue =>
        /\ freshToken \in DOMAIN sessions'
        /\ sessions'[freshToken] = 0
        /\ \A t \in DOMAIN sessions' : sessions'[t] <= SESSION_DURATION_MS
        /\ \A t \in DOMAIN sessions :
             ~isExpired(sessions[t]) =>
               t \in DOMAIN sessions' /\ sessions'[t] = sessions[t]
        /\ Cardinality(DOMAIN sessions') <=
             Cardinality({k \in DOMAIN issued' :
                            issued'[k] <= SESSION_DURATION_MS})
    ]_vars

\* a token was just issued, and a token issued long ago, never cleared, is
\* no longer in the store
C32_Witness ==
  /\ \E t \in DOMAIN sessions : sessions[t] = 0
  /\ \E k \in DOMAIN issued :
       /\ isExpired(issued[k])
       /\ k \notin DOMAIN sessions
       /\ k \notin cleared


(***************************************************************************)
(* Requests in flight together.  Node runs each synchronous stretch of     *)
(* middleware to its end; requests interleave where one waits for its body *)
(* or for the disk.  Two connections, two client addresses, the POST       *)
(* routes, one window of every limiter (no time passes).                   *)
(***************************************************************************)
ConcReqs == {"r1", "r2"}
ConcClients == {"c1", "c2"}
ConcRoutes == {"session", "colors", "locale"}

\* requests in flight that will still ask generateSession for a token
pendingIssues ==
  {x \in ConcReqs : IsSessionRoute(req[x]) /\ req[x].pc \notin {"Idle", "Ended"}}

InitConc ==
  /\ server = Process("listening", GoodDisk)
  /\ API_KEY = "k3y"
  /\ sessions = EmptyStore
  /\ issued = EmptyStore
  /\ cleared = {}
  /\ hits = [t \in Tiers |-> [c \in ConcClients |-> NoHits]]
  /\ files = [f \in Files |-> "orig"]
  /\ page = BlankPage
  /\ req = [r \in ConcReqs |-> Blank]

\* a connection delivers a POST request, which requestTimeout and
\* requestLogger hand on in the same synchronous run (api.ts:244-257)
arrive(r) ==
  /\ req[r].pc = "Idle"
  /\ \E rt \in ConcRoutes, c \in ConcClients :
       /\ hits["global"][c].count < GLOBAL_MAX + MaxOver
       /\ rt \in {"colors", "locale"} => hits["write"][c].count < WRITE_MAX + MaxOver
       /\ rt = "session"
            => /\ hits["session"][c].count < SESSION_MAX + MaxOver
               /\ Cardinality(Tokens \ TakenTokens) > Cardinality(pendingIssues \ {r})
       /\ req' = [req EXCEPT ![r] =
                    Log([Blank EXCEPT !.pc = "Logged", !.method = "POST",
                                      !.route = rt, !.client = c,
                                      !.code = IF rt = "locale" THEN "en" ELSE "-",
                                      !.timer = "armed", !.left = TIMEOUT_MS,
                                      !.requestId = r,
                                      !.stages = <<"Received", "TimeoutArmed", "Logged">>],
                        "requestLogger", r)]
  /\ UNCHANGED <<server, API_KEY, sessions, issued, cleared, hits, files, page>>

\* the clients of the model send well-formed requests with the API key: a
\* session request has no body, a write request a JSON body that the
\* schema accepts
wellFormed(q) ==
  IF IsSessionRoute(q) THEN [content |-> "none", body |-> "empty"]
  ELSE [content |-> "json", body |-> "p1"]

NextConc ==
  \E r \in ConcReqs :
    \/ arrive(r)
    \/ globalLimiter(r)
    \/ validateContentType(r) /\ req'[r].content = wellFormed(req[r]).content
    \/ jsonParser(r) /\ req'[r].body = wellFormed(req[r]).body
    \/ authGateWith(r, NoToken, API_KEY)
    \/ sessionLimiter(r)
    \/ writeLimiter(r)
    \/ sessionHandler(r)
    \/ validateBody(r)
    \/ handlerBegin(r)
    \/ writeEnd(r) /\ req'[r].wrote
    \/ finish(r)
    \/ release(r)

SpecConc == InitConc /\ [][NextConc]_vars

\* the requests that reach the limiter of a tier with this step
reaching(tier, c) ==
  {r \in ConcReqs : /\ req'[r].client = c
                    /\ tier \in DOMAIN req'[r].seen
                    /\ tier \notin DOMAIN req[r].seen}

\* C33: with requests in flight together in every order, no update to the
\* limiters' counters or to the session store is lost: in one window the
\* counter of a tier and client grows by exactly one with each request that
\* reaches the tier and with nothing else, no two requests of a client get
\* the same count, a request is answered 429 by a tier exactly when its
\* count is above the maximum (so no more than the maximum are admitted),
\* and every token a request was given is in the store, no two requests
\* being given the same one.
C33_NoLostUpdate ==
  /\ [](\A r \in ConcReqs :
          /\ \A t \in DOMAIN req[r].seen :
               /\ req[r].seen[t] >= 1
               /\ req[r].seen[t] <= hits[t][req[r].client].count
               /\ (req[r].status = 429 /\ req[r].sentBy = LimiterOf(t))
                    <=> req[r].seen[t] > max(t)
               /\ \A x \in ConcReqs \ {r} :
                    (req[x].client = req[r].client /\ t \in DOMAIN req[x].seen)
                      => req[x].seen[t] # req[r].seen[t]
          /\ req[r].issued # NoToken =>
               /\ req[r].issued \in DOMAIN sessions
               /\ \A x \in ConcReqs \ {r} : req[x].issued # req[r].issued)
  /\ [][ \A t \in Tiers, c \in ConcClients :
           hits'[t][c].count = hits[t][c].count + Cardinality(reaching(t, c)) ]_vars

\* two requests of one client are in flight, one waits for the disk, the
\* other was the first above the write maximum, and a token was issued
C33_Witness ==
  \E r \in ConcReqs : \E x \in ConcReqs \ {r} :
    /\ req[r].client = req[x].client
    /\ req[r].pc = "Handler"
    /\ req[x].status = 429
    /\ req[x].sentBy = "writeLimiter"
    /\ req[x].seen["write"] = WRITE_MAX + 1
    /\ ~req[x].fin
    /\ sessions # EmptyStore


\* the number of times the stage of a rate limiter is among the stages of
\* a request
timesLimited(q) ==
  Cardinality({i \in DOMAIN q.stages : q.stages[i] = "RateChecked"})

\* C34: a request adds one, once, to the counter of each tier whose limiter
\* it reaches, whatever becomes of it: the count it was given stays with it
\* to its end, the step in which its timer fires or its connection closes
\* or its response fails leaves every counter as it is, a counter goes up
\* only by one and only with a request reaching its limiter for the first
\* time, and a counter goes down only when its window ends, and then to
\* nothing.
C34_CountedOnce ==
  /\ [](\A r \in Reqs :
          /\ timesLimited(req[r]) = Cardinality(DOMAIN req[r].seen)
          /\ "global" \in DOMAIN req[r].seen
               <=> req[r].pc \notin {"Idle", "Received", "TimeoutArmed", "Logged"}
          /\ req[r].pc \in {"TierChecked", "SchemaValidated"}
               => IF IsSessionRoute(req[r]) THEN "session" \in DOMAIN req[r].seen
                  ELSE "write" \in DOMAIN req[r].seen)
  /\ [][ \A r \in Reqs :
           LET c == req[r].client
               ended == \/ req'[r].timer = "fired" /\ req[r].timer # "fired"
                        \/ req'[r].closed /\ ~req[r].closed
           IN /\ ended => hits' = hits /\ req'[r].seen = req[r].seen
              /\ req'[r].pc # "Idle" =>
                   \A t \in DOMAIN req[r].seen :
                     t \in DOMAIN req'[r].seen /\ req'[r].seen[t] = req[r].seen[t]
              /\ \A t \in Tiers, k \in Clients :
                   LET first == /\ k = req'[r].client
                                /\ t \in DOMAIN req'[r].seen
                                /\ t \notin DOMAIN req[r].seen
                   IN /\ first =>
                           /\ hits'[t][k].count =
                                IF hits[t][k].left = 0 THEN 1
                                ELSE hits[t][k].count + 1
                           /\ req'[r].seen[t] = hits'[t][k].count
                      /\ hits'[t][k].count > hits[t][k].count => first
                      /\ hits'[t][k].count < hits[t][k].count =>
                           /\ ~first \/ hits[t][k].left = 0
                           /\ hits[t][k].left <= 1
                           /\ hits'[t][k].count \in {0, 1}
       ]_vars
  /\ [][ Tick => \A t \in Tiers, k \in Clients :
                   IF hits[t][k].left <= 1 THEN hits'[t][k] = NoHits
                   ELSE hits'[t][k].count = hits[t][k].count ]_vars

\* a write request was counted in both tiers, timed out while it waited
\* for the disk, and its connection closed; the write window has ended
\* since and the global window has not
C34_Witness ==
  \E r \in Reqs :
    /\ req[r].status = 408
    /\ req[r].closed
    /\ req[r].pc = "Handler"
    /\ "write" \in DOMAIN req[r].seen
    /\ hits["write"][req[r].client] = NoHits
    /\ hits["global"][req[r].client].count = req[r].seen["global"]


authorized(q) == q.auth \in {"session", "key"}

\* C36: the write counter counts exactly the requests to the two mutation
\* routes that passed the global limiter, the content-type check and
\* requireAuth: a request answered 429 by the global limiter, 415 or 401 is
\* not counted and its answer leaves the write counter as it is, and a
\* request answered 400, by validateBody or by the locale handler for its
\* code, has been counted and its answer leaves the count in place.
C36_WriteCountedAfterAuth ==
  /\ [](\A r \in Reqs :
          LET q == req[r]
              counted == "write" \in DOMAIN q.seen
          IN /\ counted =>
                  /\ IsWriteRoute(q)
                  /\ "global" \in DOMAIN q.seen
                  /\ q.seen["global"] <= GLOBAL_MAX
                  /\ ~unsupportedMediaType(q.method, q.headers)
                  /\ q.body # "malformed"
                  /\ authorized(q)
             /\ (IsWriteRoute(q) /\ authorized(q) /\ q.pc # "AuthChecked") => counted
             /\ (q.status = 429 /\ q.sentBy = "globalLimiter") => ~counted
             /\ q.status \in {401, 415} => ~counted
             /\ (q.status = 400 /\ IsWriteRoute(q)) => counted)
  /\ [][ \A r \in Reqs :
           LET c == req[r].client
               answered == req'[r].sent /\ ~req[r].sent
           IN /\ (answered /\ req'[r].status \in {401, 415, 429}
                    /\ req'[r].sentBy # "writeLimiter")
                   => hits'["write"] = hits["write"]
              /\ (answered /\ req'[r].status = 400 /\ IsWriteRoute(req[r]))
                   => /\ hits' = hits
                      /\ hits["write"][c].count = req[r].seen["write"]
                      /\ req[r].seen["write"] >= 1
       ]_vars

\* a locale request with a code outside the list was answered 400 by the
\* handler and holds the last slot of the write window
C36_Witness ==
  \E r \in Reqs :
    /\ req[r].route = "locale"
    /\ req[r].code \notin validCodes
    /\ req[r].status = 400
    /\ req[r].sentBy = "handler"
    /\ hits["write"][req[r].client].count = WRITE_MAX
    /\ req[r].seen["write"] = WRITE_MAX


\* the body of the request arrived whole with Content-Type application/json
\* and did not parse
parseFailed(q) == q.body = "malformed" /\ q.content = "json" /\ ~q.closed

MaxSubmits == 2

\* const locales: LocaleCode[] (fileService.ts:188)
locales == <<"en", "ja", "de", "fr", "ko", "zh">>

\* the token the server hands out to the page
PageToken == 1

\* one entry of errors[]: the file it is about and what failed
Err(at, why) == [at |-> at, why |-> why]

\* a mutation request leaves with the headers of getMutationHeaders
\* (fileService.ts:53-58): X-Session-Token is the cached sessionToken,
\* whatever it is
mutation(p, to) ==
  [p EXCEPT !.calls = Append(@, [to |-> to, token |-> p.sessionToken])]

InitClient ==
  /\ server = Process("listening", GoodDisk)
  /\ API_KEY = NoKey
  /\ sessions = EmptyStore
  /\ issued = EmptyStore
  /\ cleared = {}
  /\ hits = [t \in Tiers |-> [c \in Clients |-> NoHits]]
  /\ files = [f \in Files |-> "orig"]
  /\ req = [r \in Reqs |-> Blank]
  \* DyeForm's setup has called checkServerHealth (DyeForm.vue:33)
  /\ page = [BlankPage EXCEPT !.health = "healthFetch"]

\* checkServerHealth (fileService.ts:64-79): the answer of GET /health; with
\* status 'ok' it goes on to getSessionToken, which returns the cached token
\* or sends POST /auth/session (fileService.ts:20-35); else, or when the
\* fetch throws, it returns false and DyeForm stores it (DyeForm.vue:33-35)
healthEnd ==
  /\ page.health = "healthFetch"
  /\ \E answer \in {"ok", "other", "throw"} :
       page' = IF answer # "ok"
               THEN [page EXCEPT !.health = "done", !.serverOnline = FALSE]
               ELSE IF page.sessionToken # NoToken
               THEN [page EXCEPT !.health = "done", !.serverOnline = TRUE]
               ELSE [page EXCEPT !.health = "sessionFetch"]
  /\ UNCHANGED <<server, API_KEY, sessions, issued, cleared, hits, files, req>>

\* getSessionToken (fileService.ts:37-48): the answer of POST /auth/session;
\* a response that is ok caches data.token, and checkServerHealth returns
\* true; a response that is not ok, or a fetch that throws, makes
\* getSessionToken throw and checkServerHealth return false
sessionEnd ==
  /\ page.health = "sessionFetch"
  /\ \E answer \in {"ok", "notOk", "throw"} :
       page' = IF answer = "ok"
               THEN [page EXCEPT !.health = "done", !.serverOnline = TRUE,
                                 !.sessionToken = PageToken]
               ELSE [page EXCEPT !.health = "done", !.serverOnline = FALSE]
  /\ UNCHANGED <<server, API_KEY, sessions, issued, cleared, hits, files, req>>

\* the user completes the form: validationErrors is empty and dyeObject is
\* not null (DyeForm.vue:38-99)
fill ==
  /\ page.health # "closed"
  /\ ~page.valid
  /\ page' = [page EXCEPT !.valid = TRUE]
  /\ UNCHANGED <<server, API_KEY, sessions, issued, cleared, hits, files, req>>

\* canSubmit (DyeForm.vue:68-70)
canSubmit(p) == p.valid /\ p.serverOnline /\ ~p.isSubmitting

\* handleSubmit (DyeForm.vue:118-124) up to the first await of
\* addDyeToDatabase, the fetch of readColorsJson (fileService.ts:164-172)
handleSubmit ==
  /\ page.health # "closed"
  /\ canSubmit(page)
  /\ page.submits < MaxSubmits
  /\ page' = [page EXCEPT !.isSubmitting = TRUE, !.submit = "readColors",
                          !.locale = 0, !.errors = <<>>, !.calls = <<>>,
                          !.written = {}, !.result = "-", !.submits = @ + 1]
  /\ UNCHANGED <<server, API_KEY, sessions, issued, cleared, hits, files, req>>

\* addDyeToDatabase returns { success, errors } and handleSubmit ends
\* (fileService.ts:178, 210, 214; DyeForm.vue:126-137): resetForm after a
\* success, isSubmitting back to false
returned(p, success) ==
  [p EXCEPT !.submit = "idle", !.locale = 0,
            !.result = IF success THEN "true" ELSE "false",
            !.valid = IF success THEN FALSE ELSE @,
            !.isSubmitting = FALSE]

\* readColorsJson ends (fileService.ts:83-89, 171-176): with the dyes,
\* writeColorsJson is called; a response that is not ok or a fetch that
\* throws goes to the outer catch
readColorsEnd ==
  /\ page.submit = "readColors"
  /\ \E answer \in {"ok", "throw"} :
       page' = IF answer = "ok"
               THEN mutation([page EXCEPT !.submit = "writeColors"], "colors")
               ELSE returned([page EXCEPT !.errors = <<Err("colors", "read")>>],
                             FALSE)
  /\ UNCHANGED <<server, API_KEY, sessions, issued, cleared, hits, files, req>>

\* the fetch of a read or of a write of the next locale begins
\* (fileService.ts:189-191)
readLocale(p, i) == [p EXCEPT !.submit = "readLocale", !.locale = i]

\* writeColorsJson ends (fileService.ts:176-181): without success the
\* function returns, a fetch that throws goes to the outer catch
\* (fileService.ts:211-215), with success the loop over the locales begins
writeColorsEnd ==
  /\ page.submit = "writeColors"
  /\ \E answer \in {"success", "failure", "throw"} :
       page' = IF answer = "success"
               THEN readLocale([page EXCEPT !.written = {"colors"}], 1)
               ELSE returned([page EXCEPT !.errors =
                                <<Err("colors", IF answer = "throw" THEN "threw"
                                                ELSE "write")>>],
                             FALSE)
  /\ UNCHANGED <<server, API_KEY, sessions, issued, cleared, hits, files, req>>

\* variant: the loop ends with the first locale that fails
afterLocale_StopAtError(p) ==
  IF p.locale < Len(locales) /\ p.errors = <<>>
  THEN readLocale(p, p.locale + 1)
  ELSE returned(p, p.errors = <<>>)

\* the body of the loop is over for a locale (fileService.ts:189-210): the
\* next locale, or return { success: errors.length === 0, errors }
afterLocale(p) ==
  IF p.locale < Len(locales)
  THEN readLocale(p, p.locale + 1)
  ELSE returned(p, p.errors = <<>>)

\* readLocaleJson ends (fileService.ts:191-203): with the data,
\* writeLocaleJson is called; a throw is caught inside the loop
\* (fileService.ts:205-208)
readLocaleEnd ==
  /\ page.submit = "readLocale"
  /\ \E answer \in {"ok", "throw"} :
       page' = IF answer = "ok"
               THEN mutation([page EXCEPT !.submit = "writeLocale"],
                             locales[page.locale])
               ELSE afterLocale([page EXCEPT !.errors =
                                   Append(@, Err(locales[page.locale], "read"))])
  /\ UNCHANGED <<server, API_KEY, sessions, issued, cleared, hits, files, req>>

\* writeLocaleJson ends (fileService.ts:201-208)
writeLocaleEnd ==
  /\ page.submit = "writeLocale"
  /\ \E answer \in {"success", "failure", "throw"} :
       page' = afterLocale(
                 IF answer = "success"
                 THEN [page EXCEPT !.written = @ \cup {locales[page.locale]}]
                 ELSE [page EXCEPT !.errors =
                         Append(@, Err(locales[page.locale],
                                       IF answer = "throw" THEN "threw"
                                       ELSE "write"))])
  /\ UNCHANGED <<server, API_KEY, sessions, issued, cleared, hits, files, req>>

NextClient ==
  \/ healthEnd
  \/ sessionEnd
  \/ fill
  \/ handleSubmit
  \/ readColorsEnd
  \/ writeColorsEnd
  \/ readLocaleEnd
  \/ writeLocaleEnd

SpecClient == InitClient /\ [][NextClient]_vars

\* the files the mutation requests of the submission went to, in order
targets == [i \in DOMAIN page.calls |-> page.calls[i].to]

\* the place of a file in the order colors, en, ja, de, fr, ko, zh
place(f) ==
  IF f = "colors" THEN 0
  ELSE CHOOSE i \in DOMAIN locales : locales[i] = f

localeNames == {locales[i] : i \in DOMAIN locales}

\* addDyeToDatabase has returned after the colors write reported success
loopDone == page.result # "-" /\ "colors" \in page.written

\* C38 as stated: once the colors write has reported success, all six
\* locale writes are attempted.
C38_AllSixWritesAttempted ==
  loopDone => \A l \in localeNames : \E i \in DOMAIN targets : targets[i] = l

\* C38, amended: addDyeToDatabase writes the colors file first and once; it
\* goes on to the locale files only if that write reported success; then it
\* takes the six locales in the order en, ja, de, fr, ko, zh, reads each and
\* attempts its write when the read succeeded, goes on after a locale that
\* failed in its read or its write, and sends nothing more to the colors
\* file; it returns success = true exactly when the colors write and all
\* six locale writes reported success, and errors is empty exactly then.
C38_ColorsThenLocales ==
  /\ targets # <<>> => targets[1] = "colors"
  /\ \A i, j \in DOMAIN targets : i < j => place(targets[i]) < place(targets[j])
  /\ (\E i \in DOMAIN targets : targets[i] # "colors") => "colors" \in page.written
  /\ page.written \subseteq {targets[i] : i \in DOMAIN targets}
  /\ page.submit \in {"readLocale", "writeLocale"} =>
       /\ "colors" \in page.written
       /\ \A i \in 1..(page.locale - 1) :
            \/ locales[i] \in page.written
            \/ \E e \in DOMAIN page.errors : page.errors[e].at = locales[i]
  /\ loopDone =>
       \A l \in localeNames :
         \/ \E i \in DOMAIN targets : targets[i] = l
         \/ \E e \in DOMAIN page.errors : page.errors[e] = Err(l, "read")
  /\ page.result # "-" =>
       /\ page.result = "true" <=> page.written = {"colors"} \cup localeNames
       /\ page.result = "true" <=> page.errors = <<>>

\* a submission has returned without success: the colors file and four
\* locale files were written, the read of one locale failed and its write
\* was not attempted, the write of another failed
C38_Witness ==
  /\ page.result = "false"
  /\ "colors" \in page.written
  /\ Cardinality(page.written) = 5
  /\ Len(page.calls) = 6
  /\ \E e \in DOMAIN page.errors : page.errors[e].why = "read"
  /\ \E e \in DOMAIN page.errors : page.errors[e].why = "write"
  /\ \E i \in DOMAIN targets : targets[i] = "zh"

\* C39: every mutation request of the page, whenever the submission falls
\* between the steps of the health check, leaves with a session token: the
\* cached sessionToken is not null when writeColorsJson or writeLocaleJson
\* is called.
C39_TokenBeforeMutation ==
  \A i \in DOMAIN page.calls : page.calls[i].token # NoToken

=============================================================================
